---- MODULE Spec2Model ----
(***************************************************************************)
(* The chart specification execution engine of DataSights                  *)
(* (backend/app/services/chart_service.py): ChartService.generate_chart_data *)
(* as a staged pipeline over a pandas DataFrame, and the dry-run           *)
(* ChartService.validate_chart_spec.                                       *)
(*                                                                         *)
(* A DataFrame is [columns, dtypes, rows]; a row is [idx, v] with idx the  *)
(* pandas index label and v the cells by column name.  A cell is           *)
(* [t, n, d, s]: t the kind ("int", "float", "str", "ts", "null"), n/d the *)
(* number (n the epoch value of a timestamp), s the text.                  *)
(***************************************************************************)
EXTENDS Integers, Sequences, FiniteSets, TLC

VARIABLES
    exception,            \* the class of the exception that left the try body of the running call
    aliased,           \* processed_df is the caller's DataFrame object itself
    llm_chart_spec,    \* the fields the ChartSpec was constructed from (group_by)
    chart_spec,        \* the caller's ChartSpec object (shared, mutable)
    dataframe,         \* the caller's DataFrame
    csv_metadata,      \* CSVMetadata.columns of the same file
    processed_df,      \* generate_chart_data: the working copy
    transformations,   \* generate_chart_data: the trace
    validation_result, \* the last ChartValidationResult of the run
    chart_data,        \* the output records of the run
    summary_stats,     \* the statistics of the run
    pc,                \* the position of the running call
    fi,                \* _apply_filters: index of the next filter of the loop
    stages,            \* the stages the running call has executed, in order
    results,           \* the outcomes of the completed calls, in order
    chat_response      \* the ChatResponse of the ask flow to the running call

vars == <<chart_spec, dataframe, csv_metadata, processed_df, transformations,
          validation_result, chart_data, summary_stats, pc, fi, stages,
          results, chat_response, llm_chart_spec, aliased, exception>>

-----------------------------------------------------------------------------
(* Bounds of the model and constants of the program *)

MaxRows == 2

MaxCalls == 2

max_data_points == 1000

max_categories == 50

-----------------------------------------------------------------------------
(* Python values *)

None == "None"

Truthy(name) == name # None

Null == [t |-> "null", n |-> 0, d |-> 1, s |-> ""]

IntC(k) == [t |-> "int", n |-> k, d |-> 1, s |-> ""]

StrC(str) == [t |-> "str", n |-> 0, d |-> 1, s |-> str]

TsC(k) == [t |-> "ts", n |-> k, d |-> 1, s |-> ""]

Abs(k) == IF k < 0 THEN 0 - k ELSE k

RECURSIVE GCD(_, _)
GCD(a, b) == IF b = 0 THEN a ELSE GCD(b, a % b)

\* the float n/d in lowest terms
FloatC(k, den) ==
    LET g == GCD(Abs(k), den)
    IN  [t |-> "float", n |-> k \div g, d |-> den \div g, s |-> ""]

IsNum(c) == c.t \in {"int", "float"}

\* pd.isna / pd.notna on a scalar
IsNa(c) == c.t = "null"

NumLess(a, b) == a.n * b.d < b.n * a.d

NumEq(a, b) == a.n * b.d = b.n * a.d

\* float(x) of a number
ToFloat(c) == FloatC(c.n, c.d)

NumAdd(a, b) == FloatC(a.n * b.d + b.n * a.d, a.d * b.d)

\* The strings of the model in Python's (lexicographic) order.
StrOrder == <<"1970-01", "1970-W00", "1970Q1", "2024-01", "2024-02", "2024-W00",
              "2024-W01", "2024-W05", "2024Q1", "A", "B", "East", "NaT", "North",
              "Others", "South", "West", "first", "second">>

StrRank(str) == CHOOSE k \in 1..Len(StrOrder) : StrOrder[k] = str

\* a < b for two non-null cells of one column
CellLess(a, b) ==
    IF IsNum(a) /\ IsNum(b) THEN NumLess(a, b)
    ELSE IF a.t = "str" /\ b.t = "str" THEN StrRank(a.s) < StrRank(b.s)
    ELSE IF a.t = "ts" /\ b.t = "ts" THEN a.n < b.n
    ELSE FALSE

CellSame(a, b) ==
    IF IsNum(a) /\ IsNum(b) THEN NumEq(a, b) ELSE a = b

RECURSIVE KeyLess(_, _)
\* lexicographic order of key tuples (sequences of non-null cells)
KeyLess(k1, k2) ==
    IF k1 = <<>> \/ k2 = <<>> THEN FALSE
    ELSE IF CellLess(Head(k1), Head(k2)) THEN TRUE
    ELSE IF CellLess(Head(k2), Head(k1)) THEN FALSE
    ELSE KeyLess(Tail(k1), Tail(k2))

RECURSIVE SortKeys(_)
\* the key tuples of a set, ascending
SortKeys(S) ==
    IF S = {} THEN <<>>
    ELSE LET m == CHOOSE k \in S : \A o \in S : ~KeyLess(o, k)
         IN  <<m>> \o SortKeys(S \ {m})

Reverse(seq) == [k \in 1..Len(seq) |-> seq[Len(seq) + 1 - k]]

RECURSIVE Flatten(_)
\* concatenation of a sequence of sequences, by halves
Flatten(ss) ==
    IF Len(ss) = 0 THEN <<>>
    ELSE IF Len(ss) = 1 THEN ss[1]
    ELSE LET m == Len(ss) \div 2
         IN  Flatten(SubSeq(ss, 1, m)) \o Flatten(SubSeq(ss, m + 1, Len(ss)))

RECURSIVE SumCells(_)
\* the sum of a sequence of numbers as a float, by halves
SumCells(cs) ==
    IF Len(cs) = 0 THEN FloatC(0, 1)
    ELSE IF Len(cs) = 1 THEN ToFloat(cs[1])
    ELSE LET m == Len(cs) \div 2
         IN  NumAdd(SumCells(SubSeq(cs, 1, m)), SumCells(SubSeq(cs, m + 1, Len(cs))))

Range(seq) == {seq[k] : k \in 1..Len(seq)}

Contains(seq, e) == \E k \in 1..Len(seq) : seq[k] = e

HasDuplicates(seq) == \E i, j \in 1..Len(seq) : i # j /\ seq[i] = seq[j]

-----------------------------------------------------------------------------
(* pandas DataFrame *)

EmptyDf == [columns |-> <<>>, dtypes |-> <<>>, rows |-> <<>>]

\* the label c names more than one column of df: df[c] is then a DataFrame
\* and row[c] a Series
Duplicated(df, c) == Cardinality({i \in 1..Len(df.columns) : df.columns[i] = c}) > 1

HasCol(df, c) == Contains(df.columns, c)

NRows(df) == Len(df.rows)

\* the cells of column c, in row order
ColCells(df, c) == [i \in 1..NRows(df) |-> df.rows[i].v[c]]

\* df[c] = series: the column is added (last) or replaced
SetCol(df, c, dtype, cells) ==
    LET cols == IF HasCol(df, c) THEN df.columns ELSE Append(df.columns, c)
    IN  [columns |-> cols,
         dtypes  |-> [k \in Range(cols) |-> IF k = c THEN dtype ELSE df.dtypes[k]],
         rows    |-> [i \in 1..NRows(df) |->
                        [idx |-> df.rows[i].idx,
                         v   |-> [k \in Range(cols) |->
                                    IF k = c THEN cells[i] ELSE df.rows[i].v[k]]]]]

\* pd.api.types.is_numeric_dtype
is_numeric_dtype(dtype) == dtype \in {"int64", "float64"}

\* the int64 a NaT is viewed as: the least int64, here a number below every
\* other number of the model
iNaT == 0 - 1000000

\* the int64 a timestamp is viewed as: nanoseconds since 1970, for the dates
\* of the model (days of 2024) a number above every other number of the model
epoch_ns(day) == 100000 + day

\* pd.to_numeric(df[c], errors='coerce'): [dtype, cells]
to_numeric(df, c) ==
    LET dt == df.dtypes[c]
        cells == ColCells(df, c)
    IN  IF is_numeric_dtype(dt) THEN [dtype |-> dt, cells |-> cells]
        ELSE IF dt = "datetime64"
        THEN [dtype |-> "int64",
              cells |-> [i \in DOMAIN cells |->
                           IF cells[i].t = "ts" THEN IntC(epoch_ns(cells[i].n)) ELSE IntC(iNaT)]]
        ELSE [dtype |-> "float64", cells |-> [i \in DOMAIN cells |-> Null]]

\* the rows of df in the order of the key column c: ascending (or descending),
\* ties in row order, nulls last
SortRows(df, c, ascending) ==
    LET present == {<<df.rows[i].v[c]>> : i \in {j \in 1..NRows(df) : ~IsNa(df.rows[j].v[c])}}
        asc == SortKeys(present)
        keys == IF ascending THEN asc ELSE Reverse(asc)
        bucket(k) == SelectSeq(df.rows, LAMBDA r : r.v[c] = k[1])
    IN  Flatten([k \in 1..Len(keys) |-> bucket(keys[k])])
        \o SelectSeq(df.rows, LAMBDA r : IsNa(r.v[c]))

-----------------------------------------------------------------------------
(* ChartSpec, FilterSpec, CalculationSpec (models/chart_models.py) *)

\* calculation = None
NoCalculation == [field_name |-> None, formula |-> <<>>, description |-> None]

HasCalculation(spec) == spec.calculation.field_name # None

\* ChartSpec.set_defaults_and_validate: bar, line and scatter without y
\* aggregate by sum when no aggregation was asked for
set_defaults_and_validate(spec) ==
    IF spec.chart_type \in {"bar", "line", "scatter"} /\ ~Truthy(spec.y)
       /\ spec.aggregation = "none"
    THEN [spec EXCEPT !.aggregation = "sum"]
    ELSE spec

\* a validator that returns the list as given
validate_group_by_without_limit(v) == v

\* ChartSpec.validate_group_by_limit: a longer list is cut to its first three
validate_group_by_limit(v) == IF Len(v) > 3 THEN SubSeq(v, 1, 3) ELSE v

\* ChartSpec(**fields)
ChartSpec(chart_type, x, y, aggregation, group_by, calculation, filters) ==
    set_defaults_and_validate(
        [chart_type |-> chart_type, x |-> x, y |-> y, aggregation |-> aggregation,
         group_by |-> validate_group_by_limit(group_by),
         calculation |-> calculation, filters |-> filters])

\* a trace entry: the text of the f-string and the values formatted into it
Entry(text, cols, op, value) == [text |-> text, cols |-> cols, op |-> op, value |-> value]

NoValue == [list |-> FALSE, items |-> <<>>]

\* a filter literal: a scalar (one item) or a list
Scalar(c) == [list |-> FALSE, items |-> <<c>>]

List(cs) == [list |-> TRUE, items |-> cs]

-----------------------------------------------------------------------------
(* Step 1: _apply_calculated_field, _safe_calculate *)

\* a formula is its sequence of lexical tokens
IsIdentifier(tok) == tok \notin {"*", "5", "'os'", "(", ")"}

\* re.findall(column_pattern, formula)
referenced_columns(formula) == SelectSeq(formula, IsIdentifier)

operators_keywords == {"and", "or", "not", "if", "else", "true", "false",
                       "sum", "mean", "min", "max"}

actual_columns(df, formula) ==
    SelectSeq(referenced_columns(formula),
              LAMBDA col : HasCol(df, col) /\ col \notin operators_keywords)

\* a check that lets every formula through
dangerous_unchecked(formula) == FALSE

\* any(pattern in formula.lower() for pattern in dangerous_patterns)
dangerous(formula) ==
    \E k \in 1..Len(formula) : formula[k] \in {"__import__", "import", "exec", "eval",
                                               "open", "file", "input", "raw_input"}

\* the names eval can resolve: safe_dict
safe_dict_names(columns) ==
    {"abs", "max", "min", "sum", "round", "pow", "sqrt", "log", "exp", "np", "pd"}
        \cup Range(columns)

\* a * b of two numeric cells (NaN when either is)
MulCells(a, b, dtype) ==
    IF IsNa(a) \/ IsNa(b) THEN Null
    ELSE IF dtype = "int64" THEN IntC(a.n * b.n)
    ELSE FloatC(a.n * b.n, a.d * b.d)

\* a result left with its missing values
fillna_skipped(c, dtype) == c

\* result.fillna(0)
fillna0(c, dtype) == IF IsNa(c) THEN (IF dtype = "int64" THEN IntC(0) ELSE FloatC(0, 1)) ELSE c

\* _safe_calculate: [ok, dtype, cells]; ok = FALSE when it raises ValueError
_safe_calculate(df, formula, columns) ==
    LET names == SelectSeq(formula, IsIdentifier)
        unresolved == SelectSeq(names, LAMBDA tok : tok \notin safe_dict_names(columns))
        failed(text, cols) == [ok |-> FALSE, dtype |-> "object", cells |-> <<>>,
                               error |-> [text |-> text, cols |-> cols]]
        done(dtype, cells) == [ok |-> TRUE, dtype |-> dtype, cells |-> cells,
                               error |-> [text |-> None, cols |-> <<>>]]
    IN  IF dangerous(formula)
        THEN failed("Formula evaluation failed: Unsafe operation detected in formula", <<>>)
        ELSE IF unresolved # <<>>
        \* eval raises NameError at the first name it cannot resolve
        THEN failed("Formula evaluation failed: name '{name}' is not defined",
                    <<unresolved[1]>>)
        ELSE IF Len(formula) = 1 /\ formula[1] = "5"
        THEN done("int64", [i \in 1..NRows(df) |-> IntC(5)])
        ELSE IF Len(formula) = 3 /\ formula[2] = "*"
                /\ formula[1] \in Range(columns) /\ formula[3] \in Range(columns)
        THEN LET a == to_numeric(df, formula[1])
                 b == to_numeric(df, formula[3])
                 dt == IF a.dtype = "int64" /\ b.dtype = "int64" THEN "int64" ELSE "float64"
             IN  done(dt, [i \in 1..NRows(df) |->
                             fillna0(MulCells(a.cells[i], b.cells[i], dt), dt)])
        ELSE failed("Formula evaluation failed: {error}", <<>>)

\* _apply_calculated_field: [ok, df, transformations]; ok = FALSE when it
\* raises ValidationException
_apply_calculated_field(df, calculation) ==
    LET cols == actual_columns(df, calculation.formula)
        r == _safe_calculate(df, calculation.formula, cols)
    IN  IF r.ok
        THEN [ok |-> TRUE,
              df |-> SetCol(df, calculation.field_name, r.dtype, r.cells), error |-> r.error,
              transformations |->
                  <<Entry("Calculated {field_name} = {formula}",
                          <<calculation.field_name>> \o calculation.formula, "", NoValue),
                    Entry("Description: {description}", <<calculation.description>>, "", NoValue)>>]
        ELSE [ok |-> FALSE, df |-> df, transformations |-> <<>>, error |-> r.error]

-----------------------------------------------------------------------------
(* Step 2: _handle_time_grouping, _find_date_column *)

\* the period keyword the branches of _handle_time_grouping pick for x
\* ("none" when x.lower() contains no keyword)
PeriodOf(x) ==
    IF x = "month" THEN "month"
    ELSE IF x \in {"year", "year_built"} THEN "year"
    ELSE IF x = "quarter" THEN "quarter"
    ELSE IF x = "week" THEN "week"
    ELSE "none"

\* pd.to_datetime(sample, errors='raise') succeeds: numbers are epoch
\* values, the words of the model are no dates
ParsesAsDate(df, c) ==
    /\ \E i \in 1..NRows(df) : ~IsNa(df.rows[i].v[c])
    /\ df.dtypes[c] \in {"int64", "float64", "datetime64"}

\* _find_date_column: the first column whose sample parses, or None
_find_date_column(df) ==
    IF \E k \in 1..Len(df.columns) : ParsesAsDate(df, df.columns[k])
    THEN df.columns[CHOOSE k \in 1..Len(df.columns) :
                        /\ ParsesAsDate(df, df.columns[k])
                        /\ \A j \in 1..(k - 1) : ~ParsesAsDate(df, df.columns[j])]
    ELSE None

\* the day a timestamp of the model falls in: days 1..31 are January 2024,
\* later ones February 2024; a number is an epoch offset in 1970
MonthCell(c) ==
    IF IsNa(c) THEN Null
    ELSE IF IsNum(c) THEN StrC("1970-01")
    ELSE IF c.n <= 31 THEN StrC("2024-01") ELSE StrC("2024-02")

YearCell(c, anyNa) ==
    IF IsNa(c) THEN Null
    ELSE LET y == IF IsNum(c) THEN 1970 ELSE 2024
         IN  IF anyNa THEN FloatC(y, 1) ELSE IntC(y)

\* dt.to_period('Q').astype(str): a missing date becomes the text NaT
QuarterCell(c) ==
    IF IsNa(c) THEN StrC("NaT")
    ELSE IF IsNum(c) THEN StrC("1970Q1") ELSE StrC("2024Q1")

\* dt.strftime('%Y-W%U'): the weeks of 2024 start on Sunday 7 January
WeekCell(c) ==
    IF IsNa(c) THEN Null
    ELSE IF IsNum(c) THEN StrC("1970-W00")
    ELSE IF c.n < 7 THEN StrC("2024-W00")
    ELSE IF c.n < 14 THEN StrC("2024-W01")
    ELSE StrC("2024-W05")

\* _handle_time_grouping: [df, transformations]
_handle_time_grouping(df, spec) ==
    LET date_col == _find_date_column(df)
        period == IF Truthy(spec.x) THEN PeriodOf(spec.x) ELSE "none"
    IN  IF period = "none" \/ date_col = None
        THEN [df |-> df, transformations |-> <<>>]
        ELSE LET cells == ColCells(df, date_col)
                 anyNa == \E i \in DOMAIN cells : IsNa(cells[i])
             IN  IF period = "month"
                 THEN [df |-> SetCol(df, "month", "object",
                                     [i \in DOMAIN cells |-> MonthCell(cells[i])]),
                       transformations |->
                           <<Entry("Extracted month from {date_col}", <<date_col>>, "", NoValue)>>]
                 ELSE IF period = "year"
                 THEN [df |-> SetCol(df, "year", IF anyNa THEN "float64" ELSE "int64",
                                     [i \in DOMAIN cells |-> YearCell(cells[i], anyNa)]),
                       transformations |->
                           <<Entry("Extracted year from {date_col}", <<date_col>>, "", NoValue)>>]
                 ELSE IF period = "quarter"
                 THEN [df |-> SetCol(df, "quarter", "object",
                                     [i \in DOMAIN cells |-> QuarterCell(cells[i])]),
                       transformations |->
                           <<Entry("Extracted quarter from {date_col}", <<date_col>>, "", NoValue)>>]
                 ELSE [df |-> SetCol(df, "week", "object",
                                     [i \in DOMAIN cells |-> WeekCell(cells[i])]),
                       transformations |->
                           <<Entry("Extracted week from {date_col}", <<date_col>>, "", NoValue)>>]

-----------------------------------------------------------------------------
(* Step 3: _validate_enhanced_chart_spec, and the dry run validate_chart_spec *)

\* ChartValidationResult.success / .failure
success == [is_valid |-> TRUE, error_message |-> Entry(None, <<>>, "", NoValue),
            suggestions |-> {}]

failure(text, cols, suggestions) ==
    [is_valid |-> FALSE, error_message |-> Entry(text, cols, "", NoValue),
     suggestions |-> suggestions]

Available(df) == {[text |-> "Available columns: {available_columns}", cols |-> Range(df.columns)]}

\* a validation without the x check of lines 292-297
_validate_without_x_check(spec, df) ==
    LET invalid_groups == SelectSeq(spec.group_by, LAMBDA col : ~HasCol(df, col))
    IN  IF Truthy(spec.y) /\ ~HasCol(df, spec.y)
        THEN failure("Y-axis column '{y}' not found in data", <<spec.y>>, Available(df))
        ELSE IF invalid_groups # <<>>
        THEN failure("Group by columns not found: {invalid_groups}", invalid_groups, Available(df))
        ELSE IF spec.chart_type = "scatter" /\ Truthy(spec.y)
                /\ ~is_numeric_dtype(df.dtypes[spec.y])
        THEN failure("Scatter plot Y-axis '{y}' must be numeric", <<spec.y>>, {})
        ELSE IF spec.chart_type = "pie" /\ Truthy(spec.y)
                /\ ~is_numeric_dtype(df.dtypes[spec.y])
        THEN failure("Pie chart values '{y}' must be numeric", <<spec.y>>, {})
        ELSE success

\* a validation without the y check of lines 299-303 for the cartesian charts
_validate_without_y_check(spec, df) ==
    LET invalid_groups == SelectSeq(spec.group_by, LAMBDA col : ~HasCol(df, col))
    IN  IF Truthy(spec.x) /\ ~HasCol(df, spec.x)
        THEN failure("X-axis column '{x}' not found in data", <<spec.x>>, Available(df))
        ELSE IF Truthy(spec.y) /\ ~HasCol(df, spec.y) /\ spec.chart_type \in {"scatter", "pie"}
        THEN failure("Y-axis column '{y}' not found in data", <<spec.y>>, Available(df))
        ELSE IF invalid_groups # <<>>
        THEN failure("Group by columns not found: {invalid_groups}", invalid_groups, Available(df))
        ELSE IF spec.chart_type = "scatter" /\ Truthy(spec.y)
                /\ ~is_numeric_dtype(df.dtypes[spec.y])
        THEN failure("Scatter plot Y-axis '{y}' must be numeric", <<spec.y>>, {})
        ELSE IF spec.chart_type = "pie" /\ Truthy(spec.y)
                /\ ~is_numeric_dtype(df.dtypes[spec.y])
        THEN failure("Pie chart values '{y}' must be numeric", <<spec.y>>, {})
        ELSE success

\* a validation without the group_by check of lines 305-312
_validate_without_group_check(spec, df) ==
    IF Truthy(spec.x) /\ ~HasCol(df, spec.x)
    THEN failure("X-axis column '{x}' not found in data", <<spec.x>>, Available(df))
    ELSE IF Truthy(spec.y) /\ ~HasCol(df, spec.y)
    THEN failure("Y-axis column '{y}' not found in data", <<spec.y>>, Available(df))
    ELSE IF spec.chart_type = "scatter" /\ Truthy(spec.y)
            /\ ~is_numeric_dtype(df.dtypes[spec.y])
    THEN failure("Scatter plot Y-axis '{y}' must be numeric", <<spec.y>>, {})
    ELSE IF spec.chart_type = "pie" /\ Truthy(spec.y)
            /\ ~is_numeric_dtype(df.dtypes[spec.y])
    THEN failure("Pie chart values '{y}' must be numeric", <<spec.y>>, {})
    ELSE success

\* _validate_enhanced_chart_spec: the first failing rule, else success
_validate_enhanced_chart_spec(spec, df) ==
    LET invalid_groups == SelectSeq(spec.group_by, LAMBDA col : ~HasCol(df, col))
    IN  IF Truthy(spec.x) /\ ~HasCol(df, spec.x)
        THEN failure("X-axis column '{x}' not found in data", <<spec.x>>, Available(df))
        ELSE IF Truthy(spec.y) /\ ~HasCol(df, spec.y)
        THEN failure("Y-axis column '{y}' not found in data", <<spec.y>>, Available(df))
        ELSE IF invalid_groups # <<>>
        THEN failure("Group by columns not found: {invalid_groups}", invalid_groups, Available(df))
        ELSE IF spec.chart_type = "scatter" /\ Truthy(spec.y)
                /\ ~is_numeric_dtype(df.dtypes[spec.y])
        THEN failure("Scatter plot Y-axis '{y}' must be numeric", <<spec.y>>, {})
        ELSE IF spec.chart_type = "pie" /\ Truthy(spec.y)
                /\ ~is_numeric_dtype(df.dtypes[spec.y])
        THEN failure("Pie chart values '{y}' must be numeric", <<spec.y>>, {})
        ELSE success

\* pd.DataFrame(columns=csv_metadata.columns): no rows, every column object
dummy_df(columns) ==
    [columns |-> columns, dtypes |-> [k \in Range(columns) |-> "object"], rows |-> <<>>]

validate_chart_spec(spec, metadata) ==
    _validate_enhanced_chart_spec(spec, dummy_df(metadata))

-----------------------------------------------------------------------------
(* Step 4: _apply_filters *)

\* series == literal on one cell: the raw value, no coercion; NaN equals nothing
RawEq(cell, lit) ==
    IF IsNa(cell) THEN FALSE
    ELSE IF IsNum(cell) /\ IsNum(lit) THEN NumEq(cell, lit)
    ELSE IF cell.t = "str" /\ lit.t = "str" THEN cell.s = lit.s
    ELSE FALSE

\* the comparison of one coerced cell with float(value)
Compare(op, cell, lit) ==
    IF IsNa(cell) THEN FALSE
    ELSE IF op = ">" THEN NumLess(lit, cell)
    ELSE IF op = ">=" THEN ~NumLess(cell, lit)
    ELSE IF op = "<" THEN NumLess(cell, lit)
    ELSE ~NumLess(lit, cell)

\* float(value) raises for a list (TypeError) and for a word (ValueError)
float_ok(value) == ~value.list /\ IsNum(value.items[1])

\* the mask of one filter over df: [ok, keep]; ok = FALSE when building it raises
Mask(df, f) ==
    LET cells == ColCells(df, f.column)
        n == NRows(df)
        raised == [ok |-> FALSE, keep |-> [i \in 1..n |-> TRUE]]
        mask(test(_)) == [ok |-> TRUE, keep |-> [i \in 1..n |-> test(i)]]
        num == to_numeric(df, f.column).cells
    IN  IF f.operator \in {"==", "!="}
        THEN IF f.value.list /\ Len(f.value.items) # n THEN raised
             ELSE LET eq(i) == RawEq(cells[i], IF f.value.list THEN f.value.items[i]
                                                ELSE f.value.items[1])
                  IN  IF f.operator = "==" THEN mask(eq) ELSE mask(LAMBDA i : ~eq(i))
        ELSE IF f.operator \in {">", ">=", "<", "<="}
        THEN IF ~float_ok(f.value) THEN raised
             ELSE mask(LAMBDA i : Compare(f.operator, num[i], f.value.items[1]))
        ELSE IF f.operator \in {"in", "not_in"}
        THEN IF ~f.value.list THEN raised
             ELSE LET isin(i) == \E k \in 1..Len(f.value.items) : RawEq(cells[i], f.value.items[k])
                  IN  IF f.operator = "in" THEN mask(isin) ELSE mask(LAMBDA i : ~isin(i))
        ELSE raised

\* one iteration of the loop of _apply_filters: [applied, df, transformations]
FilterIteration(df, f) ==
    LET skipped == [applied |-> FALSE, df |-> df, transformations |-> <<>>]
    IN  IF ~HasCol(df, f.column) THEN skipped
        ELSE LET m == Mask(df, f)
                 kept == {df.rows[i].idx : i \in {j \in 1..NRows(df) : m.keep[j]}}
             IN  IF ~m.ok THEN skipped
                 ELSE [applied |-> TRUE,
                       df |-> [df EXCEPT !.rows = SelectSeq(df.rows, LAMBDA r : r.idx \in kept)],
                       transformations |->
                           <<Entry("Filtered {col} {op} {value}", <<f.column>>, f.operator, f.value)>>]

-----------------------------------------------------------------------------
(* Step 5: _apply_enhanced_aggregation *)

\* the grouping columns: group_by, then x when not among them, those of df only
group_columns(df, spec) ==
    LET all == spec.group_by \o
               (IF Truthy(spec.x) /\ ~Contains(spec.group_by, spec.x) THEN <<spec.x>> ELSE <<>>)
    IN  SelectSeq(all, LAMBDA col : Truthy(col) /\ HasCol(df, col))

\* {"sum": ..., "mean": ..., "min": ..., "max": ...}.get(aggregation, "sum")
agg_func_of(aggregation) ==
    IF aggregation \in {"sum", "mean", "min", "max"} THEN aggregation ELSE "sum"

\* the reduction of one group's cells of dtype dt (NaN skipped)
Reduce(func, cells, dt) ==
    LET vals == SelectSeq(cells, LAMBDA c : ~IsNa(c))
        total == SumCells(vals)
    IN  IF func = "sum" THEN (IF dt = "int64" THEN IntC(total.n) ELSE total)
        ELSE IF vals = <<>> THEN Null
        ELSE IF func = "mean" THEN FloatC(total.n, total.d * Len(vals))
        ELSE IF func = "min"
        THEN CHOOSE m \in Range(vals) : \A o \in Range(vals) : ~NumLess(o, m)
        ELSE CHOOSE m \in Range(vals) : \A o \in Range(vals) : ~NumLess(m, o)

\* the key of a row
KeyOf(r, group_cols) == [j \in 1..Len(group_cols) |-> r.v[group_cols[j]]]

\* groupby drops the rows with a null in the key (dropna=True)
HasNullKey(r, group_cols) == \E j \in 1..Len(group_cols) : IsNa(r.v[group_cols[j]])

\* the keys of df.groupby(group_cols), ascending (sort=True)
GroupKeys(df, group_cols) ==
    SortKeys({KeyOf(df.rows[i], group_cols) :
                 i \in {j \in 1..NRows(df) : ~HasNullKey(df.rows[j], group_cols)}})

GroupRows(df, group_cols, key) ==
    SelectSeq(df.rows, LAMBDA r : KeyOf(r, group_cols) = key)

\* df.groupby(group_cols).<reduce>.reset_index(): a row per key, the key
\* columns and the column out; values[g] is the reduction of the g-th key
Grouped(df, group_cols, out, out_dtype, values) ==
    LET keys == GroupKeys(df, group_cols)
        cols == Append(group_cols, out)
    IN  [columns |-> cols,
         dtypes  |-> [k \in Range(cols) |-> IF k = out THEN out_dtype ELSE df.dtypes[k]],
         rows    |-> [g \in 1..Len(keys) |->
                        [idx |-> g - 1,
                         v   |-> [k \in Range(cols) |->
                                    IF k = out THEN values[g]
                                    ELSE keys[g][CHOOSE j \in 1..Len(group_cols) :
                                                     group_cols[j] = k]]]]]

\* _apply_enhanced_aggregation: [df, transformations, y], y the value
\* chart_spec.y has afterwards
_apply_enhanced_aggregation(df, spec) ==
    LET group_cols == group_columns(df, spec)
        unchanged == [df |-> df, transformations |-> <<>>, y |-> spec.y]
    IN  IF spec.aggregation = "none" /\ spec.group_by = <<>> THEN unchanged
        ELSE IF group_cols = <<>> THEN unchanged
        ELSE IF spec.aggregation = "count"
        THEN IF HasDuplicates(group_cols) \/ Contains(group_cols, "count")
             THEN unchanged   \* reset_index raises, caught
             ELSE [df |-> Grouped(df, group_cols, "count", "int64",
                                  LET keys == GroupKeys(df, group_cols)
                                  IN  [g \in 1..Len(keys) |->
                                         IntC(Len(GroupRows(df, group_cols, keys[g])))]),
                   transformations |->
                       <<Entry("Grouped by {group_cols} and counted rows", group_cols, "", NoValue)>>,
                   y |-> "count"]
        ELSE IF ~Truthy(spec.y) \/ ~HasCol(df, spec.y) THEN unchanged
        ELSE LET agg_func == agg_func_of(spec.aggregation)
                 num == to_numeric(df, spec.y)
                 coerced == SetCol(df, spec.y, num.dtype, num.cells)
                 out_dtype == IF agg_func = "mean" THEN "float64" ELSE num.dtype
                 value(key) ==
                     LET rs == GroupRows(coerced, group_cols, key)
                     IN  Reduce(agg_func, [i \in 1..Len(rs) |-> rs[i].v[spec.y]], num.dtype)
             IN  IF HasDuplicates(group_cols) \/ Contains(group_cols, spec.y)
                 THEN [df |-> coerced, transformations |-> <<>>, y |-> spec.y]
                 ELSE [df |-> Grouped(coerced, group_cols, spec.y, out_dtype,
                                      LET keys == GroupKeys(coerced, group_cols)
                                      IN  [g \in 1..Len(keys) |-> value(keys[g])]),
                       transformations |->
                           <<Entry("Grouped by {group_cols} and applied {agg_func} to {y}",
                                   group_cols \o <<spec.y>>, agg_func, NoValue)>>,
                       y |-> spec.y]

-----------------------------------------------------------------------------
(* Step 6 and 7: the cap and the sort *)

\* processed_df.head(max_data_points)
head(df, k) == [df EXCEPT !.rows = SubSeq(df.rows, 1, IF NRows(df) < k THEN NRows(df) ELSE k)]

\* len(processed_df) > self.max_data_points
\* a limit test that lets max_data_points + 1 rows through
over_limit_off_by_one(df) == NRows(df) > max_data_points + 1

over_limit(df) == NRows(df) > max_data_points

\* chart_spec.x and chart_spec.x in processed_df.columns
sortable(df, spec) == Truthy(spec.x) /\ HasCol(df, spec.x)

\* a sort that leaves the rows as they are
sort_values_skipped(df, c) == df

\* processed_df.sort_values(chart_spec.x)
sort_values(df, c) == [df EXCEPT !.rows = SortRows(df, c, TRUE)]

-----------------------------------------------------------------------------
(* Step 8: _generate_chart_specific_data *)

\* an emitted value: j its JSON type ("null", "int", "float", "str"), of the
\* kind of Python value it was made from, n/d/s the value, nan whether the
\* Python value was NaN / NaT / None
J(j, of, c) == [j |-> j, of |-> of, n |-> c.n, d |-> c.d, s |-> c.s, nan |-> IsNa(c)]

\* the dtype of the rows iterrows yields: the common dtype of all columns
RowDtype(df) ==
    LET S == {df.dtypes[c] : c \in Range(df.columns)}
    IN  IF S \subseteq {"int64"} THEN "int64"
        ELSE IF S \subseteq {"int64", "float64"} THEN "float64"
        ELSE IF S \subseteq {"datetime64"} THEN "datetime64"
        ELSE "object"

\* a formatter without the pd.isna test of line 507
_format_value_without_isna(rowdt, cell) ==
    IF rowdt = "int64" THEN J("int", "int", cell)
    ELSE IF rowdt = "float64" THEN J("float", "float", cell)
    ELSE IF cell.t = "ts" THEN J("str", "ts", cell)
    ELSE J("str", cell.t, cell)

\* _format_value_for_json of a cell of a row of dtype rowdt
_format_value_for_json(rowdt, cell) ==
    IF IsNa(cell) THEN J("null", "null", Null)
    ELSE IF rowdt = "int64" THEN J("int", "int", cell)
    ELSE IF rowdt = "float64" THEN J("float", "float", cell)
    ELSE IF cell.t = "ts" THEN J("str", "ts", cell)
    ELSE J("str", cell.t, cell)

\* str(row[x])
str_of(rowdt, cell) ==
    IF IsNa(cell) THEN J("str", "null", Null)
    ELSE IF rowdt = "float64" THEN J("str", "float", cell)
    ELSE J("str", cell.t, cell)

\* _format_standard_chart_data
_format_standard_chart_data(spec, df) ==
    LET keys == {k \in {spec.x, spec.y} \cup Range(spec.group_by) : Truthy(k) /\ HasCol(df, k)}
        rowdt == RowDtype(df)
    IN  [i \in 1..NRows(df) |->
            [k \in keys |-> _format_value_for_json(rowdt, df.rows[i].v[k])]]

\* df.nlargest(k, y): descending by y, ties in row order, NaN last
nlargest(df, k, y) == head([df EXCEPT !.rows = SortRows(df, y, FALSE)], k)

\* the sum of column y over rows (NaN skipped), in the column's dtype
ColumnSum(rows, y, dt) == Reduce("sum", [i \in 1..Len(rows) |-> rows[i].v[y]], dt)

\* pd.concat([df_top, others_row], ignore_index=True)
concat_others(df_top, x, y, others_value) ==
    LET n == NRows(df_top)
        dtype(k) == IF k = y THEN df_top.dtypes[y]
                    ELSE IF k = x THEN "object"
                    ELSE IF df_top.dtypes[k] = "int64" THEN "float64"
                    ELSE df_top.dtypes[k]
        cell(k, c) == IF k # x /\ k # y /\ df_top.dtypes[k] = "int64" THEN ToFloat(c) ELSE c
    IN  [columns |-> df_top.columns,
         dtypes  |-> [k \in Range(df_top.columns) |-> dtype(k)],
         rows    |-> [i \in 1..(n + 1) |->
                        [idx |-> i - 1,
                         v   |-> [k \in Range(df_top.columns) |->
                                    IF i <= n THEN cell(k, df_top.rows[i].v[k])
                                    ELSE IF k = y THEN others_value
                                    ELSE IF k = x THEN StrC("Others")
                                    ELSE Null]]]]

\* others_value > 0
others_shown(others_value) == others_value.n > 0

\* the rows _format_pie_chart_data emits: the frame itself, or its top
\* max_categories - 1 rows by y and the "Others" row
pie_frame(spec, df) ==
    IF NRows(df) > max_categories
    THEN LET df_top == nlargest(df, max_categories - 1, spec.y)
             top == {df_top.rows[i].idx : i \in 1..NRows(df_top)}
             others_value == ColumnSum(SelectSeq(df.rows, LAMBDA r : r.idx \notin top),
                                       spec.y, df.dtypes[spec.y])
         IN  IF others_shown(others_value)
             THEN concat_others(df_top, spec.x, spec.y, others_value)
             ELSE df_top
    ELSE df

\* _format_pie_chart_data
_format_pie_chart_data(spec, df) ==
    IF ~Truthy(spec.x) \/ ~Truthy(spec.y) THEN <<>>
    ELSE LET out == pie_frame(spec, df)
             rowdt == RowDtype(out)
         IN  [i \in 1..NRows(out) |->
                [k \in {"name", "value"} |->
                    IF k = "name" THEN str_of(rowdt, out.rows[i].v[spec.x])
                    ELSE IF IsNa(out.rows[i].v[spec.y]) THEN J("int", "int", IntC(0))
                    ELSE J("float", "float", out.rows[i].v[spec.y])]]

\* the formatter raises: `if pd.isna(value)` and `... if pd.notna(row[y])` on a
\* Series (a duplicated label) are ValueError
format_raises(spec, df) ==
    /\ NRows(df) > 0
    /\ IF spec.chart_type = "pie"
       THEN Truthy(spec.x) /\ Truthy(spec.y) /\ Duplicated(df, spec.y)
       ELSE \E k \in {spec.x, spec.y} \cup Range(spec.group_by) :
                Truthy(k) /\ HasCol(df, k) /\ Duplicated(df, k)

_generate_chart_specific_data(spec, df) ==
    IF spec.chart_type = "pie" THEN _format_pie_chart_data(spec, df)
    ELSE _format_standard_chart_data(spec, df)

-----------------------------------------------------------------------------
(* Step 9: _calculate_summary_stats *)

\* df[c].nunique()
nunique(df, c) == Cardinality({df.rows[i].v[c] : i \in 1..NRows(df)} \ {Null})

NoStats == [total_records |-> 0, chart_type |-> None, y |-> None, y_total |-> Null,
            y_mean |-> Null, y_min |-> Null, y_max |-> Null, x |-> None,
            x_unique_count |-> 0, groups |-> <<>>]

_calculate_summary_stats(df, spec) ==
    LET has_y == Truthy(spec.y) /\ HasCol(df, spec.y)
        y_series == IF has_y
                    THEN SelectSeq(to_numeric(df, spec.y).cells, LAMBDA c : ~IsNa(c))
                    ELSE <<>>
        y_stats == has_y /\ Len(y_series) > 0
        has_x == Truthy(spec.x) /\ HasCol(df, spec.x)
        group_cols == SelectSeq(spec.group_by, LAMBDA col : HasCol(df, col))
    IN  [total_records |-> NRows(df),
         chart_type |-> spec.chart_type,
         y |-> IF y_stats THEN spec.y ELSE None,
         y_total |-> IF y_stats THEN Reduce("sum", y_series, "float64") ELSE Null,
         y_mean |-> IF y_stats THEN Reduce("mean", y_series, "float64") ELSE Null,
         y_min |-> IF y_stats THEN ToFloat(Reduce("min", y_series, "float64")) ELSE Null,
         y_max |-> IF y_stats THEN ToFloat(Reduce("max", y_series, "float64")) ELSE Null,
         x |-> IF has_x THEN spec.x ELSE None,
         x_unique_count |-> IF has_x THEN nunique(df, spec.x) ELSE 0,
         groups |-> [k \in 1..Len(group_cols) |->
                        [col |-> group_cols[k], n |-> nunique(df, group_cols[k])]]]

-----------------------------------------------------------------------------
(* The inputs: datasets as csv_service.load_dataframe delivers them *)

\* CSVService._convert_column_type_safe on a numeric column: int64 when
\* every value is an integer, float64 (NaN for the missing) otherwise
NumericColumn(cells) ==
    IF \E i \in DOMAIN cells : IsNa(cells[i])
    THEN [dtype |-> "float64",
          cells |-> [i \in DOMAIN cells |-> IF IsNa(cells[i]) THEN Null ELSE ToFloat(cells[i])]]
    ELSE [dtype |-> "int64", cells |-> cells]

\* a frame of the columns region (text), units_sold (numeric), date (dates)
\* from rows <<region, units_sold, date>>, with the default RangeIndex
SalesFrame(raw) ==
    LET units == NumericColumn([i \in 1..Len(raw) |-> raw[i][2]])
    IN  [columns |-> <<"region", "units_sold", "date">>,
         dtypes  |-> [k \in {"region", "units_sold", "date"} |->
                        IF k = "region" THEN "object"
                        ELSE IF k = "units_sold" THEN units.dtype ELSE "datetime64"],
         rows    |-> [i \in 1..Len(raw) |->
                        [idx |-> i - 1,
                         v   |-> [k \in {"region", "units_sold", "date"} |->
                                    IF k = "region" THEN raw[i][1]
                                    ELSE IF k = "units_sold" THEN units.cells[i]
                                    ELSE raw[i][3]]]]]

RowPool == {<<StrC("North"), IntC(10), TsC(3)>>,
            <<Null, IntC(5), Null>>,
            <<StrC("South"), Null, TsC(40)>>}

RECURSIVE Tuples(_, _)
\* the sequences of length k over S
Tuples(S, k) ==
    IF k = 0 THEN {<<>>}
    ELSE {Append(t, e) : t \in Tuples(S, k - 1), e \in S}

SmallFrames == {SalesFrame(raw) : raw \in UNION {Tuples(RowPool, k) : k \in 1..MaxRows}}

\* the fixture of tests/test_chart_service.py
sample_dataframe ==
    LET region == <<"North", "South", "East", "West", "North", "South">>
        product == <<"A", "A", "B", "B", "B", "A">>
        units_sold == <<10, 15, 12, 20, 8, 25>>
        unit_price == <<10, 10, 15, 15, 15, 10>>
        cols == <<"region", "product", "units_sold", "unit_price", "date">>
    IN  [columns |-> cols,
         dtypes  |-> [k \in Range(cols) |->
                        IF k \in {"region", "product"} THEN "object"
                        ELSE IF k = "units_sold" THEN "int64"
                        ELSE IF k = "unit_price" THEN "float64" ELSE "datetime64"],
         rows    |-> [i \in 1..6 |->
                        [idx |-> i - 1,
                         v   |-> [k \in Range(cols) |->
                                    IF k = "region" THEN StrC(region[i])
                                    ELSE IF k = "product" THEN StrC(product[i])
                                    ELSE IF k = "units_sold" THEN IntC(units_sold[i])
                                    ELSE IF k = "unit_price" THEN FloatC(unit_price[i], 1)
                                    ELSE TsC(i)]]]]

\* a long frame: n rows of store_id = 1..n (all distinct), region cycling
\* over three names, and units_sold following a pattern
LongFrame(n, pattern) ==
    LET names == <<"East", "North", "South">>
        units(i) == IF pattern = "positive" THEN (i % 7) + 1
                    ELSE IF pattern = "zero" THEN 0
                    ELSE 3 - (i % 7)
        cols == <<"store_id", "region", "units_sold">>
    IN  [columns |-> cols,
         dtypes  |-> [k \in Range(cols) |-> IF k = "region" THEN "object" ELSE "int64"],
         rows    |-> [i \in 1..n |->
                        [idx |-> i - 1,
                         v   |-> [k \in Range(cols) |->
                                    IF k = "store_id" THEN IntC(i)
                                    ELSE IF k = "region" THEN StrC(names[(i % 3) + 1])
                                    ELSE IntC(units(i))]]]]

Patterns == {"positive", "zero", "mixed"}

ChartTypes == {"bar", "line", "scatter", "pie"}

Aggregations == {"sum", "mean", "count", "min", "max", "none"}

Operators == {"==", "!=", ">", ">=", "<", "<=", "in", "not_in"}

Filter(column, operator, value) == [column |-> column, operator |-> operator, value |-> value]

Values == {Scalar(StrC("North")), Scalar(IntC(5)), List(<<StrC("North"), IntC(10)>>)}

FilterLists ==
    {<<Filter(c, op, v)>> : c \in {"region", "units_sold", "date", "missing"},
                            op \in Operators, v \in Values}
    \cup {<<Filter("missing", "==", Scalar(IntC(5))), Filter("region", "in", List(<<StrC("North")>>))>>,
          <<Filter("units_sold", ">", Scalar(IntC(5))), Filter("region", "!=", Scalar(StrC("South")))>>,
          <<Filter("region", ">", Scalar(StrC("North"))), Filter("units_sold", "<=", Scalar(IntC(5)))>>}

CalculationSpec(field_name, formula) ==
    [field_name |-> field_name, formula |-> formula, description |-> "description"]

Calculations ==
    {CalculationSpec("revenue", <<"units_sold", "*", "unit_price">>),
     CalculationSpec("revenue", <<"5">>),
     CalculationSpec("revenue", <<"units_sold", "*", "cost">>),
     CalculationSpec("revenue", <<"cost", "*", "tax">>),
     CalculationSpec("revenue", <<"np", "*", "units_sold">>),
     CalculationSpec("revenue", <<"__import__", "(", "'os'", ")">>),
     CalculationSpec("revenue", <<"eval", "(", "'os'", ")">>),
     CalculationSpec("revenue", <<"open", "(", "'os'", ")">>)}

\* the requests of the model: [spec, df]
Scenario(spec, df) == [spec |-> spec, df |-> df, fields |-> [group_by |-> spec.group_by]]

StructureScenarios ==
    {Scenario(ChartSpec(ct, x, y, agg, gb, NoCalculation, <<>>), sample_dataframe) :
        ct \in ChartTypes, x \in {None, "region", "units_sold", "month", "missing"},
        y \in {None, "units_sold", "region", "missing"}, agg \in Aggregations,
        gb \in {<<>>, <<"product">>, <<"missing">>}}

CalculationScenarios ==
    {Scenario(ChartSpec("bar", "region", y, agg, <<>>, calc, <<>>), sample_dataframe) :
        y \in {"revenue", "units_sold"}, agg \in {"sum", "none"},
        calc \in Calculations \cup {NoCalculation}}

FilterScenarios ==
    {Scenario(ChartSpec("bar", "region", "units_sold", "none", <<>>, NoCalculation, fl), df) :
        fl \in FilterLists, df \in SmallFrames}

AggregationScenarios ==
    {Scenario(ChartSpec("bar", x, y, agg, gb, NoCalculation, <<>>), df) :
        x \in {None, "region", "units_sold", "year"}, y \in {None, "units_sold"},
        agg \in Aggregations, gb \in {<<>>, <<"region">>}, df \in SmallFrames}
    \cup {Scenario(ChartSpec("pie", "region", "units_sold", agg, <<>>, NoCalculation, <<>>), df) :
            agg \in Aggregations, df \in SmallFrames}

LongScenarios ==
    {Scenario(ChartSpec(ct, x, "units_sold", "none", <<>>, NoCalculation, <<>>),
              LongFrame(max_data_points + 1, "positive")) :
        ct \in {"bar", "pie"}, x \in {None, "region"}}
    \cup {Scenario(ChartSpec("pie", "store_id", "units_sold", agg, <<>>, NoCalculation, <<>>),
                   LongFrame(n, pattern)) :
            agg \in {"none", "sum"}, n \in {max_categories + 1, 60}, pattern \in Patterns}
    \cup {Scenario(ChartSpec("bar", "units_sold", "units_sold", "sum", <<>>,
                             CalculationSpec("revenue", <<"5">>),
                             <<Filter("units_sold", ">=", Scalar(IntC(0)))>>),
                   LongFrame(max_data_points + 1, "positive"))}

\* the frame load_dataframe gives for a CSV whose headers "Units Sold" and
\* "units_sold" are cleaned to the same label: both columns stay text
DuplicateLabelFrame ==
    LET cols == <<"region", "units_sold", "units_sold">>
    IN  [columns |-> cols,
         dtypes  |-> [k \in Range(cols) |-> "object"],
         rows    |-> <<[idx |-> 0, v |-> [k \in Range(cols) |->
                                           IF k = "region" THEN StrC("North") ELSE StrC("A")]],
                       [idx |-> 1, v |-> [k \in Range(cols) |->
                                           IF k = "region" THEN StrC("East") ELSE StrC("B")]]>>]

DuplicateLabelScenarios ==
    {Scenario(ChartSpec(ct, "region", y, "none", <<>>, NoCalculation, <<>>), DuplicateLabelFrame) :
        ct \in {"bar", "line", "pie"}, y \in {None, "units_sold"}}

\* test_empty_dataframe_handling: pd.DataFrame(), no rows and no columns
EmptyFrameScenarios ==
    {Scenario(ChartSpec(ct, x, y, agg, <<>>, NoCalculation, <<>>), EmptyDf) :
        ct \in {"bar", "pie"}, x \in {None, "region"}, y \in {None, "sales"},
        agg \in {"sum", "count", "none"}}

\* a frame that already has a column month and a column year_built
PeriodFrame ==
    LET cols == <<"date", "month", "year_built", "units_sold">>
        day == <<3, 40>>
        month == <<"first", "second">>
    IN  [columns |-> cols,
         dtypes  |-> [k \in Range(cols) |->
                        IF k = "date" THEN "datetime64"
                        ELSE IF k = "month" THEN "object" ELSE "int64"],
         rows    |-> [i \in 1..2 |->
                        [idx |-> i - 1,
                         v   |-> [k \in Range(cols) |->
                                    IF k = "date" THEN TsC(day[i])
                                    ELSE IF k = "month" THEN StrC(month[i])
                                    ELSE IF k = "year_built" THEN IntC(1990 + i)
                                    ELSE IntC(10 * i)]]]]

\* a frame without a column that parses as dates
TextFrame ==
    [columns |-> <<"region">>, dtypes |-> [k \in {"region"} |-> "object"],
     rows |-> <<[idx |-> 0, v |-> [k \in {"region"} |-> StrC("North")]]>>]

PeriodScenarios ==
    {Scenario(ChartSpec("bar", x, "units_sold", agg, <<>>, NoCalculation, <<>>), PeriodFrame) :
        x \in {"month", "year", "quarter", "week", "year_built", "units_sold"},
        agg \in {"sum", "none"}}
    \cup {Scenario(ChartSpec("bar", x, None, "count", <<>>, NoCalculation, <<>>), TextFrame) :
        x \in {"month", "week", "region"}}
    \cup {Scenario(ChartSpec("line", x, "units_sold", "sum", <<>>, NoCalculation, <<>>), df) :
        x \in {"quarter", "week"}, df \in SmallFrames}

\* calculations over frames with missing values and text operands, and one
\* whose field_name is an existing column
NullCalculations ==
    {CalculationSpec("doubled", <<"units_sold", "*", "units_sold">>),
     CalculationSpec("doubled", <<"region", "*", "units_sold">>),
     CalculationSpec("units_sold", <<"5">>)}

NullCalculationScenarios ==
    {Scenario(ChartSpec("bar", "region", calc.field_name, "none", <<>>, calc, <<>>), df) :
        calc \in NullCalculations, df \in SmallFrames}

\* the group_by lists given to the constructor: up to four entries
GroupByLists ==
    {<<"product">>, <<"product", "region">>, <<"product", "region", "date">>,
     <<"product", "region", "date", "unit_price">>,
     <<"date", "product", "region", "missing">>,
     <<"region", "region", "product", "product">>}

\* ChartSpec(**llm_response.chart_spec) with each of these lists
GroupLimitScenarios ==
    {[spec |-> ChartSpec("bar", x, "units_sold", agg, g, NoCalculation, <<>>),
      df |-> sample_dataframe, fields |-> [group_by |-> g]] :
        x \in {None, "region"}, agg \in {"sum", "none"}, g \in GroupByLists}

Scenarios == StructureScenarios \cup CalculationScenarios \cup FilterScenarios
                 \cup AggregationScenarios \cup LongScenarios
             \cup DuplicateLabelScenarios \cup EmptyFrameScenarios
             \cup GroupLimitScenarios \cup NullCalculationScenarios
             \cup PeriodScenarios

-----------------------------------------------------------------------------
(* generate_chart_data, stage by stage, and validate_chart_spec *)

NotValidated == [is_valid |-> FALSE, error_message |-> Entry("not validated", <<>>, "", NoValue),
                 suggestions |-> {}]

\* what a call gives its caller
Outcome(kind, spec, data, stats, trace, vr) ==
    [kind |-> kind, chart_spec |-> spec, data |-> data, summary_stats |-> stats,
     data_transformations |-> trace, error |-> vr]

ChartData(spec, data, stats, trace) == Outcome("ChartData", spec, data, stats, trace, success)

\* raise ValidationException(message, details)
ValidationException(spec, vr) == Outcome("ValidationException", spec, <<>>, NoStats, <<>>, vr)

\* a pipeline that filters before it validates
next_pc_filter_first(p, ok) ==
    IF ~ok THEN "idle"
    ELSE IF p = "calc" THEN "time"
    ELSE IF p = "time" THEN "filter"
    ELSE IF p = "filter" THEN "validate"
    ELSE IF p = "validate" THEN "aggregate"
    ELSE IF p = "aggregate" THEN "cap"
    ELSE IF p = "cap" THEN "sort"
    ELSE IF p = "sort" THEN "format"
    ELSE IF p = "format" THEN "stats"
    ELSE "idle"

\* raise FileProcessingException("Failed to generate chart data: ...")
FileProcessingException(spec) ==
    Outcome("FileProcessingException", spec, <<>>, NoStats, <<>>, NotValidated)

\* the ChatResponse of ask_question_about_data
ChatResponse(content, data, requires_clarification, clarification_prompt) ==
    [content |-> content, chart_data |-> data,
     requires_clarification |-> requires_clarification,
     clarification_prompt |-> clarification_prompt]

NoResponse == ChatResponse(None, <<>>, FALSE, None)

\* lines 88-144 of ask_question_about_data: the response to the outcome of
\* generate_chart_data
ask_response(outcome) ==
    IF outcome.kind = "ChartData"
    THEN ChatResponse("llm_response.content", outcome.data, FALSE, None)
    ELSE IF outcome.kind = "ValidationException"
    THEN ChatResponse("I couldn't create that visualization: {ve.message}", <<>>, TRUE,
                      "ve.details.suggestions[0]")
    ELSE ChatResponse("I encountered an error generating your chart. Please try a simpler question.",
                      <<>>, TRUE, "What type of chart would you like to see with your data?")

\* the stage that follows the stage at position p; ok: the stage did not raise
next_pc(p, ok) ==
    IF ~ok THEN "idle"
    ELSE IF p = "calc" THEN "time"
    ELSE IF p = "time" THEN "validate"
    ELSE IF p = "validate" THEN "filter"
    ELSE IF p = "filter" THEN "aggregate"
    ELSE IF p = "aggregate" THEN "cap"
    ELSE IF p = "cap" THEN "sort"
    ELSE IF p = "sort" THEN "format"
    ELSE IF p = "format" THEN "stats"
    ELSE "idle"

Init ==
    \E sc \in Scenarios :
        /\ llm_chart_spec = sc.fields
        /\ chart_spec = sc.spec
        /\ dataframe = sc.df
        /\ csv_metadata = sc.df.columns
        /\ processed_df = EmptyDf
        /\ transformations = <<>>
        /\ validation_result = NotValidated
        /\ chart_data = <<>>
        /\ summary_stats = NoStats
        /\ pc = "idle"
        /\ fi = 1
        /\ stages = <<>>
        /\ results = <<>>
        /\ chat_response = NoResponse
        /\ aliased = FALSE
        /\ exception = None

\* a working frame that is the caller's object
copy_by_reference(df) == [df |-> df, aliased |-> TRUE]

\* dataframe.copy(): a new object with the same columns, rows and values
copy(df) == [df |-> df, aliased |-> FALSE]

\* the frame after the writes df[y] = pd.to_numeric(df[y]) of the aggregation
\* stage, which are made on the frame it is given
coerced_in_place(df, spec) ==
    IF \/ spec.aggregation = "none" /\ spec.group_by = <<>>
       \/ group_columns(df, spec) = <<>>
       \/ spec.aggregation = "count"
       \/ ~Truthy(spec.y) \/ ~HasCol(df, spec.y)
    THEN df
    ELSE SetCol(df, spec.y, to_numeric(df, spec.y).dtype, to_numeric(df, spec.y).cells)

\* except Exception of _apply_calculated_field: whatever the body raised leaves
\* it as a ValidationException
except_calculated_field(e) == "ValidationException"

\* an exception handling that wraps whatever is raised
except_wrapping_all(e) == "FileProcessingException"

\* the except clauses of generate_chart_data: a ValidationException is raised
\* again, any other Exception leaves as a FileProcessingException
except_generate(e) ==
    IF e = "ValidationException" THEN "ValidationException"
    ELSE "FileProcessingException"

\* what the caller of generate_chart_data gets when the try body raised e
escaped(e, spec, vr) ==
    IF except_generate(e) = "ValidationException" THEN ValidationException(spec, vr)
    ELSE FileProcessingException(spec)

\* the entry of generate_chart_data: the working copy and the empty trace
Generate ==
    /\ UNCHANGED llm_chart_spec
    /\ pc = "idle"
    /\ Len(results) < MaxCalls
    /\ processed_df' = copy(dataframe).df
    /\ aliased' = copy(dataframe).aliased
    /\ exception' = None
    /\ transformations' = <<>>
    /\ validation_result' = NotValidated
    /\ chart_data' = <<>>
    /\ summary_stats' = NoStats
    /\ stages' = <<>>
    /\ fi' = 1
    /\ pc' = "calc"
    /\ chat_response' = NoResponse
    /\ UNCHANGED <<chart_spec, dataframe, csv_metadata, results>>

Calculation ==
    /\ UNCHANGED llm_chart_spec
    /\ pc = "calc"
    /\ IF HasCalculation(chart_spec)
       THEN LET r == _apply_calculated_field(processed_df, chart_spec.calculation)
                vr == failure("Failed to calculate {field_name}: " \o r.error.text,
                              <<chart_spec.calculation.field_name>> \o r.error.cols, {})
                e == except_calculated_field("ValueError")
            IN  /\ processed_df' = r.df
                /\ exception' = IF r.ok THEN exception ELSE e
                /\ transformations' = transformations \o r.transformations
                /\ stages' = Append(stages, "calculation")
                /\ results' = IF r.ok THEN results
                              ELSE Append(results, escaped(e, chart_spec, vr))
                /\ chat_response' = IF r.ok THEN chat_response
                                    ELSE ask_response(escaped(e, chart_spec, vr))
                /\ pc' = next_pc("calc", r.ok)
       ELSE /\ pc' = next_pc("calc", TRUE)
            /\ UNCHANGED <<processed_df, transformations, stages, results, chat_response,
                           exception>>
    /\ UNCHANGED <<chart_spec, csv_metadata, validation_result, chart_data,
                   summary_stats, fi>>
    /\ dataframe' = (IF aliased THEN processed_df' ELSE dataframe)
    /\ UNCHANGED aliased

TimeExtraction ==
    /\ UNCHANGED llm_chart_spec
    /\ pc = "time"
    /\ LET r == _handle_time_grouping(processed_df, chart_spec)
       IN  /\ processed_df' = r.df
           /\ transformations' = transformations \o r.transformations
    /\ stages' = Append(stages, "time_extraction")
    /\ pc' = next_pc("time", TRUE)
    /\ UNCHANGED <<chart_spec, csv_metadata, validation_result, chart_data,
                   summary_stats, fi, results>>
    /\ UNCHANGED chat_response
    /\ dataframe' = (IF aliased THEN processed_df' ELSE dataframe)
    /\ UNCHANGED aliased
    /\ UNCHANGED exception

Validation ==
    /\ UNCHANGED llm_chart_spec
    /\ pc = "validate"
    /\ LET vr == _validate_enhanced_chart_spec(chart_spec, processed_df)
       IN  /\ validation_result' = vr
           /\ exception' = IF vr.is_valid THEN exception ELSE "ValidationException"
           /\ results' = IF vr.is_valid THEN results
                         ELSE Append(results, escaped("ValidationException", chart_spec, vr))
           /\ chat_response' = IF vr.is_valid THEN chat_response
                               ELSE ask_response(escaped("ValidationException", chart_spec, vr))
           /\ pc' = next_pc("validate", vr.is_valid)
    /\ stages' = Append(stages, "validation")
    /\ UNCHANGED <<chart_spec, dataframe, csv_metadata, processed_df, transformations,
                   chart_data, summary_stats, fi>>
    /\ UNCHANGED aliased

\* if chart_spec.filters: one iteration of the loop of _apply_filters per step
Filtering ==
    /\ UNCHANGED llm_chart_spec
    /\ pc = "filter"
    /\ IF chart_spec.filters # <<>>
       THEN LET r == FilterIteration(processed_df, chart_spec.filters[fi])
                last == fi = Len(chart_spec.filters)
            IN  /\ processed_df' = r.df
                /\ transformations' = transformations \o r.transformations
                /\ stages' = IF fi = 1 THEN Append(stages, "filtering") ELSE stages
                /\ fi' = IF last THEN 1 ELSE fi + 1
                /\ pc' = IF last THEN next_pc("filter", TRUE) ELSE "filter"
       ELSE /\ pc' = next_pc("filter", TRUE)
            /\ UNCHANGED <<processed_df, transformations, stages, fi>>
    /\ UNCHANGED <<chart_spec, dataframe, csv_metadata, validation_result, chart_data,
                   summary_stats, results>>
    /\ UNCHANGED chat_response
    /\ aliased' = (IF chart_spec.filters # <<>> THEN FALSE ELSE aliased)
    /\ UNCHANGED exception

\* if chart_spec.group_by or chart_spec.aggregation != "none"
Aggregation ==
    /\ UNCHANGED llm_chart_spec
    /\ pc = "aggregate"
    /\ IF chart_spec.group_by # <<>> \/ chart_spec.aggregation # "none"
       THEN LET r == _apply_enhanced_aggregation(processed_df, chart_spec)
            IN  /\ processed_df' = r.df
                /\ transformations' = transformations \o r.transformations
                /\ chart_spec' = [chart_spec EXCEPT !.y = r.y]
                /\ stages' = Append(stages, "aggregation")
       ELSE UNCHANGED <<processed_df, transformations, chart_spec, stages>>
    /\ pc' = next_pc("aggregate", TRUE)
    /\ UNCHANGED <<csv_metadata, validation_result, chart_data, summary_stats,
                   fi, results>>
    /\ UNCHANGED chat_response
    /\ dataframe' = (IF aliased /\ (chart_spec.group_by # <<>> \/ chart_spec.aggregation # "none")
                     THEN coerced_in_place(processed_df, chart_spec) ELSE dataframe)
    /\ aliased' = (aliased /\ transformations' = transformations)
    /\ UNCHANGED exception

Capping ==
    /\ UNCHANGED llm_chart_spec
    /\ pc = "cap"
    /\ IF over_limit(processed_df)
       THEN /\ processed_df' = head(processed_df, max_data_points)
            /\ transformations' = Append(transformations,
                   Entry("Limited to {max_data_points} data points for performance",
                         <<>>, "", NoValue))
            /\ stages' = Append(stages, "capping")
       ELSE UNCHANGED <<processed_df, transformations, stages>>
    /\ pc' = next_pc("cap", TRUE)
    /\ UNCHANGED <<chart_spec, dataframe, csv_metadata, validation_result, chart_data,
                   summary_stats, fi, results>>
    /\ UNCHANGED chat_response
    /\ aliased' = (aliased /\ ~over_limit(processed_df))
    /\ UNCHANGED exception

Sort ==
    /\ UNCHANGED llm_chart_spec
    /\ pc = "sort"
    /\ IF sortable(processed_df, chart_spec)
       THEN /\ processed_df' = sort_values(processed_df, chart_spec.x)
            /\ transformations' = Append(transformations,
                   Entry("Sorted by {x}", <<chart_spec.x>>, "", NoValue))
            /\ stages' = Append(stages, "sort")
       ELSE UNCHANGED <<processed_df, transformations, stages>>
    /\ pc' = next_pc("sort", TRUE)
    /\ UNCHANGED <<chart_spec, dataframe, csv_metadata, validation_result, chart_data,
                   summary_stats, fi, results>>
    /\ UNCHANGED chat_response
    /\ aliased' = (aliased /\ ~sortable(processed_df, chart_spec))
    /\ UNCHANGED exception

Formatting ==
    /\ UNCHANGED llm_chart_spec
    /\ pc = "format"
    /\ IF format_raises(chart_spec, processed_df)
       THEN /\ exception' = "ValueError"
            /\ results' = Append(results, escaped("ValueError", chart_spec, NotValidated))
            /\ chat_response' = ask_response(escaped("ValueError", chart_spec, NotValidated))
            /\ pc' = next_pc("format", FALSE)
            /\ UNCHANGED chart_data
       ELSE /\ chart_data' = _generate_chart_specific_data(chart_spec, processed_df)
            /\ pc' = next_pc("format", TRUE)
            /\ UNCHANGED <<results, chat_response, exception>>
    /\ stages' = Append(stages, "formatting")
    /\ UNCHANGED <<chart_spec, dataframe, csv_metadata, processed_df, transformations,
                   validation_result, summary_stats, fi>>
    /\ UNCHANGED aliased

\* the statistics and the return of ChartData
SummaryStatistics ==
    /\ UNCHANGED llm_chart_spec
    /\ pc = "stats"
    /\ LET stats == _calculate_summary_stats(processed_df, chart_spec)
       IN  /\ summary_stats' = stats
           /\ results' = Append(results, ChartData(chart_spec, chart_data, stats, transformations))
           /\ chat_response' = ask_response(ChartData(chart_spec, chart_data, stats, transformations))
    /\ stages' = Append(stages, "summary")
    /\ pc' = next_pc("stats", TRUE)
    /\ UNCHANGED <<chart_spec, dataframe, csv_metadata, processed_df, transformations,
                   validation_result, chart_data, fi>>
    /\ UNCHANGED aliased
    /\ UNCHANGED exception

\* the dry run: validate_chart_spec(chart_spec, csv_metadata)
Validate ==
    /\ UNCHANGED llm_chart_spec
    /\ pc = "idle"
    /\ Len(results) < MaxCalls
    /\ LET vr == validate_chart_spec(chart_spec, csv_metadata)
       IN  results' = Append(results, Outcome("ChartValidationResult", chart_spec, <<>>,
                                              NoStats, <<>>, vr))
    /\ UNCHANGED <<chart_spec, dataframe, csv_metadata, processed_df, transformations,
                   validation_result, chart_data, summary_stats, pc, fi, stages>>
    /\ UNCHANGED chat_response
    /\ UNCHANGED aliased
    /\ UNCHANGED exception

Next ==
    \/ Generate
    \/ Calculation
    \/ TimeExtraction
    \/ Validation
    \/ Filtering
    \/ Aggregation
    \/ Capping
    \/ Sort
    \/ Formatting
    \/ SummaryStatistics
    \/ Validate

Spec == Init /\ [][Next]_vars

-----------------------------------------------------------------------------
(* Properties of generate_chart_data and validate_chart_spec *)

StageOrder == <<"calculation", "time_extraction", "validation", "filtering",
                "aggregation", "capping", "sort", "formatting", "summary">>

StageRank(s) == CHOOSE i \in 1..Len(StageOrder) : StageOrder[i] = s

LastStage == IF stages = <<>> THEN None ELSE stages[Len(stages)]

\* C1: the stages of a run of generate are taken in the order calculation,
\* time extraction, structural validation, filtering, aggregation, capping,
\* sort, formatting, summary statistics, each at most once; validation comes
\* after time extraction and before every later stage, and a failed validation
\* is the last stage of its run.
C1_StageOrder ==
    /\ \A i, j \in 1..Len(stages) : i < j => StageRank(stages[i]) < StageRank(stages[j])
    /\ Contains(stages, "validation") => Contains(stages, "time_extraction")
    /\ \A i \in 1..Len(stages) :
          StageRank(stages[i]) > StageRank("validation")
              => Contains(stages, "validation") /\ validation_result.is_valid
    /\ (Contains(stages, "validation") /\ ~validation_result.is_valid)
          => LastStage = "validation" /\ pc = "idle"

\* a finished run in which all nine stages ran
C1_AllStagesRan == pc = "idle" /\ stages = StageOrder

-----------------------------------------------------------------------------

\* the literal of a filter has the type its operator takes
WellTyped(f) ==
    \/ f.operator \in {"==", "!="} /\ ~f.value.list
    \/ f.operator \in {"in", "not_in"} /\ f.value.list
    \/ f.operator \in {">", ">=", "<", "<="} /\ ~f.value.list /\ IsNum(f.value.items[1])

SameValue(cell, lit) ==
    \/ IsNum(cell) /\ IsNum(lit) /\ NumEq(cell, lit)
    \/ cell.t = "str" /\ lit.t = "str" /\ cell.s = lit.s

\* the cell of a row satisfies filter f; an ordering needs a numeric cell
Satisfies(cell, f) ==
    LET lit == f.value.items[1]
        member == \E k \in 1..Len(f.value.items) : SameValue(cell, f.value.items[k])
    IN  IF f.operator = "==" THEN SameValue(cell, lit)
        ELSE IF f.operator = "!=" THEN ~SameValue(cell, lit)
        ELSE IF f.operator = "in" THEN member
        ELSE IF f.operator = "not_in" THEN ~member
        ELSE IF ~IsNum(cell) THEN FALSE
        ELSE IF f.operator = ">" THEN NumLess(lit, cell)
        ELSE IF f.operator = ">=" THEN ~NumLess(cell, lit)
        ELSE IF f.operator = "<" THEN NumLess(cell, lit)
        ELSE ~NumLess(lit, cell)

\* C2: filter soundness: after each filter that is applied, the remaining rows
\* are rows of the dataset before it and each of them satisfies the filter;
\* under an ordering operator no row whose cell is null or not a number remains.
C2_FilterSoundness ==
    [][(pc = "filter" /\ chart_spec.filters # <<>>
            /\ Len(transformations') > Len(transformations)
            /\ WellTyped(chart_spec.filters[fi]))
        => LET f == chart_spec.filters[fi]
           IN  /\ Range(processed_df'.rows) \subseteq Range(processed_df.rows)
               /\ NRows(processed_df') <= NRows(processed_df)
               /\ \A r \in Range(processed_df'.rows) : Satisfies(r.v[f.column], f)]_vars

-----------------------------------------------------------------------------

ColumnKind(df, c) == IF is_numeric_dtype(df.dtypes[c]) THEN "numeric" ELSE "categorical"

\* the rule table of structural validation
TableValid(chart_type, x_kind, y_kind, aggregation) ==
    IF chart_type = "scatter" THEN x_kind = "numeric" /\ y_kind = "numeric"
    ELSE IF chart_type = "pie" THEN x_kind = "categorical" /\ y_kind = "numeric"
    ELSE y_kind = "numeric" \/ aggregation # "none"

\* the validation result vr of spec over the columns of df is the table's
FollowsTable(vr, spec, df) ==
    (/\ Truthy(spec.x) /\ HasCol(df, spec.x) /\ df.dtypes[spec.x] \in {"int64", "float64", "object"}
     /\ Truthy(spec.y) /\ HasCol(df, spec.y) /\ df.dtypes[spec.y] \in {"int64", "float64", "object"}
     /\ \A k \in 1..Len(spec.group_by) : HasCol(df, spec.group_by[k]))
    => LET x_kind == ColumnKind(df, spec.x)
           y_kind == ColumnKind(df, spec.y)
       IN  /\ vr.is_valid = TableValid(spec.chart_type, x_kind, y_kind, spec.aggregation)
           /\ (spec.chart_type = "scatter" /\ x_kind = "categorical")
                 => vr.error_message.cols = <<spec.x>>

\* C3: validation table completeness: for each chart type and each kind of x
\* and y, validate (and the validation stage of generate) returns the outcome
\* of the rule table: scatter needs numeric x and y and names x when x is
\* categorical, pie needs categorical x and numeric y, bar and line need a
\* numeric y or an aggregation.
C3_ValidationTable ==
    /\ \A i \in 1..Len(results) :
          results[i].kind = "ChartValidationResult"
              => FollowsTable(results[i].error, results[i].chart_spec, dataframe)
    /\ LastStage = "validation" => FollowsTable(validation_result, chart_spec, processed_df)

-----------------------------------------------------------------------------

NotFound == {"X-axis column '{x}' not found in data", "Y-axis column '{y}' not found in data",
             "Group by columns not found: {invalid_groups}"}

AxisAndGroupColumns(spec) ==
    {c \in {spec.x, spec.y} : Truthy(c)} \cup Range(spec.group_by)

FilterColumns(spec) == {spec.filters[k].column : k \in 1..Len(spec.filters)}

\* validation failed naming columns of the set missing and listing the
\* available ones, and the run gave a ValidationException and no data
FailsNaming(missing) ==
    /\ ~validation_result.is_valid
    /\ validation_result.error_message.text \in NotFound
    /\ validation_result.error_message.cols # <<>>
    /\ Range(validation_result.error_message.cols) \subseteq missing
    /\ validation_result.suggestions = Available(processed_df)
    /\ pc = "idle" /\ chart_data = <<>>
    /\ \E i \in 1..Len(results) : /\ results[i].kind = "ValidationException"
                                  /\ results[i].error = validation_result

\* C4 (as stated): a column named as x, y, a group_by entry or a filter's column
\* that the dataset lacks after calculation and time extraction makes
\* validation fail, naming the column and listing the available columns, and
\* generate gives no result.
C4_MissingReferenceFails ==
    LastStage = "validation"
        => LET missing == {c \in AxisAndGroupColumns(chart_spec) \cup FilterColumns(chart_spec) :
                              ~HasCol(processed_df, c)}
           IN  missing # {} => FailsNaming(missing)

\* C4 (amended): a column named as x, y or a group_by entry that the dataset
\* lacks after calculation and time extraction makes validation fail, naming
\* the first such reference in the order x, y, group_by and listing the
\* available columns, and generate gives no result; a filter's column that the
\* dataset lacks is not a validation failure.
C4_MissingAxisOrGroupFails ==
    LastStage = "validation"
        => LET missing == {c \in AxisAndGroupColumns(chart_spec) : ~HasCol(processed_df, c)}
           IN  /\ missing # {} => FailsNaming(missing)
               /\ missing = {} => validation_result.error_message.text \notin NotFound

\* validation has just failed on a y the dataset lacks, x being present
C4_MissingYFailed ==
    /\ LastStage = "validation" /\ ~validation_result.is_valid
    /\ Truthy(chart_spec.x) /\ HasCol(processed_df, chart_spec.x)
    /\ Truthy(chart_spec.y) /\ ~HasCol(processed_df, chart_spec.y)
    /\ validation_result.error_message.cols = <<chart_spec.y>>

-----------------------------------------------------------------------------

\* the sum of the numeric-coerced column y of df
CoercedSum(df, y) == SumCells(SelectSeq(to_numeric(df, y).cells, LAMBDA c : ~IsNa(c)))

\* C5: aggregation conservation: with no filters and aggregation = sum, the
\* sum of the reduced y over the output groups equals the sum of the
\* numeric-coerced y over all input rows, rows with a null key included.
C5_AggregationConservation ==
    (/\ LastStage = "aggregation" /\ chart_spec.aggregation = "sum"
     /\ chart_spec.filters = <<>> /\ chart_spec.calculation = NoCalculation
     /\ Truthy(chart_spec.y) /\ HasCol(dataframe, chart_spec.y)
     /\ HasCol(processed_df, chart_spec.y))
    => NumEq(CoercedSum(processed_df, chart_spec.y), CoercedSum(dataframe, chart_spec.y))

-----------------------------------------------------------------------------

\* the grouping key of the spec: the group_by entries, then x
GroupingKey(df, spec) ==
    SelectSeq(spec.group_by \o (IF Contains(spec.group_by, spec.x) THEN <<>> ELSE <<spec.x>>),
              LAMBDA c : Truthy(c) /\ HasCol(df, c))

\* the combinations of key values present in df: every key column holds a value
PresentKeys(df, key) ==
    {KeyOf(df.rows[i], key) :
        i \in {j \in 1..NRows(df) : \A k \in 1..Len(key) : ~IsNa(df.rows[j].v[key[k]])}}

\* row r of the result is the reduction of the rows of df with its key
IsReduction(r, df, key, y, aggregation) ==
    LET num == to_numeric(df, y)
        members == {i \in 1..NRows(df) : KeyOf(df.rows[i], key) = KeyOf(r, key)}
        of_group == [i \in 1..NRows(df) |-> IF i \in members THEN num.cells[i] ELSE Null]
        expected == Reduce(aggregation, of_group, num.dtype)
    IN  IF IsNa(expected) THEN IsNa(r.v[y])
        ELSE ~IsNa(r.v[y]) /\ NumEq(r.v[y], expected)

\* C6: for a non-count aggregation with y an existing column, the result of
\* the aggregation stage has exactly one row per combination of grouping-key
\* values present in the dataset it is given, and the y of that row is the
\* named reduction of the numeric-coerced y over the rows of that group.
C6_OneRowPerGroup ==
    [][(/\ pc = "aggregate"
        /\ chart_spec.aggregation \in {"sum", "mean", "min", "max"}
        /\ Truthy(chart_spec.y) /\ HasCol(processed_df, chart_spec.y)
        /\ GroupingKey(processed_df, chart_spec) # <<>>)
       => LET key == GroupingKey(processed_df, chart_spec)
              keys == PresentKeys(processed_df, key)
              out == processed_df'
          IN  /\ NRows(out) = Cardinality(keys)
              /\ \A k \in keys : \E i \in 1..NRows(out) : KeyOf(out.rows[i], key) = k
              /\ \A i \in 1..NRows(out) :
                    IsReduction(out.rows[i], processed_df, key, chart_spec.y,
                                chart_spec.aggregation)]_vars

-----------------------------------------------------------------------------

\* C7: pie mass conservation: when a pie chart has more than max_categories
\* rows, the output is the top max_categories - 1 rows by y followed by one
\* record named "Others" whose value is the sum of y over the excluded rows,
\* left out only when that sum is zero; the output never has more than
\* max_categories records.
C7_PieMassConservation ==
    (/\ pc = "stats" /\ chart_spec.chart_type = "pie"
     /\ Truthy(chart_spec.x) /\ HasCol(processed_df, chart_spec.x)
     /\ Truthy(chart_spec.y) /\ HasCol(processed_df, chart_spec.y)
     /\ NRows(processed_df) > max_categories)
    => LET n == Len(chart_data)
           top == max_categories - 1
           total == CoercedSum(processed_df, chart_spec.y)
           kept == SumCells([i \in 1..top |-> chart_data[i].value])
       IN  /\ n >= top /\ n <= max_categories
           /\ \A i \in 1..top : \A j \in 1..top :
                 i < j => ~NumLess(chart_data[i].value, chart_data[j].value)
           /\ IF NumEq(kept, total) THEN n = top
              ELSE /\ n = max_categories
                   /\ chart_data[n].name.s = "Others"
                   /\ NumEq(NumAdd(kept, chart_data[n].value), total)

-----------------------------------------------------------------------------

\* an emitted value is null, a number or a string, and a number is not NaN
JsonSafe(value) ==
    /\ value.j \in {"null", "int", "float", "str"}
    /\ value.j \in {"int", "float"} => ~value.nan

\* C8: JSON-safety: in every result of generate every field of every record of
\* data is null, a number or a string: no NaN and no native timestamp, for
\* every chart type and every kind of cell the loader produces.
C8_JsonSafety ==
    /\ \A i \in 1..Len(results) : \A k \in 1..Len(results[i].data) :
          \A field \in DOMAIN results[i].data[k] : JsonSafe(results[i].data[k][field])
    /\ \A k \in 1..Len(chart_data) :
          \A field \in DOMAIN chart_data[k] : JsonSafe(chart_data[k][field])

\* a result with a record of numbers one of whose cells was NaN
C8_NaNInNumericRow ==
    \E i \in 1..Len(results) : \E k \in 1..Len(results[i].data) :
        LET record == results[i].data[k]
        IN  /\ \E field \in DOMAIN record : record[field].j = "null" /\ record[field].nan
            /\ \E field \in DOMAIN record : record[field].j = "float"

-----------------------------------------------------------------------------

CapEntry == Entry("Limited to {max_data_points} data points for performance", <<>>, "", NoValue)

\* C9: row cap: sorting and formatting never get more than max_data_points
\* rows; when the rows after aggregation exceed it, the first max_data_points
\* of them, in that order, are kept before the sort and one trace entry notes
\* the cap; otherwise no row is dropped and no entry is added.
C9_RowCap ==
    /\ [](pc \in {"sort", "format", "stats"} => NRows(processed_df) <= max_data_points)
    /\ [][pc = "cap"
            => IF NRows(processed_df) > max_data_points
               THEN /\ processed_df'.rows = SubSeq(processed_df.rows, 1, max_data_points)
                    /\ transformations' = Append(transformations, CapEntry)
                    /\ pc' = "sort"
               ELSE /\ processed_df' = processed_df
                    /\ transformations' = transformations]_vars

\* the cap has just cut a longer dataset to max_data_points rows
C9_Capped ==
    /\ pc = "sort" /\ LastStage = "capping"
    /\ NRows(dataframe) > max_data_points
    /\ NRows(processed_df) = max_data_points
    /\ transformations # <<>> /\ transformations[Len(transformations)] = CapEntry

-----------------------------------------------------------------------------

IsGenerateOutcome(r) == r.kind \in {"ChartData", "ValidationException"}

\* C10: generate is idempotent: two calls in sequence with the same spec and
\* the same dataset give the same outcome (data, trace and summary, or the
\* same failure), also when aggregation = count and y is unset.
C10_Idempotent ==
    \A i, j \in 1..Len(results) :
        (IsGenerateOutcome(results[i]) /\ IsGenerateOutcome(results[j]))
            => /\ results[i].kind = results[j].kind
               /\ results[i].data = results[j].data
               /\ results[i].data_transformations = results[j].data_transformations
               /\ results[i].summary_stats = results[j].summary_stats
               /\ results[i].error = results[j].error

-----------------------------------------------------------------------------

\* C11: after a generate run with aggregation = count that returns a result,
\* the spec of the result has y = "count", and every row the aggregation
\* stage produces carries the number of rows of its input (the post-filter
\* dataset) that have the row's key.
C11_CountColumn ==
    /\ [](\A i \in 1..Len(results) :
            (results[i].kind = "ChartData" /\ results[i].chart_spec.aggregation = "count")
                => results[i].chart_spec.y = "count")
    /\ [][(pc = "aggregate" /\ chart_spec.aggregation = "count")
            => LET key == GroupingKey(processed_df, chart_spec)
                   out == processed_df'
               IN  /\ chart_spec'.y = "count"
                   /\ HasCol(out, "count")
                   /\ \A i \in 1..NRows(out) :
                         out.rows[i].v["count"] =
                            IntC(Cardinality({j \in 1..NRows(processed_df) :
                                    KeyOf(processed_df.rows[j], key) = KeyOf(out.rows[i], key)}))]_vars

-----------------------------------------------------------------------------

LastResult == results[Len(results)]

\* the ask flow has answered the running call
Answered == pc = "idle" /\ chat_response # NoResponse /\ results # <<>>

\* C12: in the ask flow, once a chart spec has been obtained: when the engine
\* fails with a validation error the caller answers with a clarification
\* response without chart data; when the engine fails with any other
\* (processing) error the caller does not answer with a clarification response.
C12_ProcessingErrorNotClarification ==
    Answered =>
        /\ LastResult.kind = "ValidationException"
              => chat_response.requires_clarification /\ chat_response.chart_data = <<>>
        /\ LastResult.kind = "FileProcessingException"
              => ~chat_response.requires_clarification


-----------------------------------------------------------------------------
(* C13: a y of "revenue" with no calculation given *)

\* the dataset of test_revenue_calculation: units_sold and unit_price, no revenue
RevenueIsAbsent ==
    /\ HasCol(dataframe, "units_sold") /\ HasCol(dataframe, "unit_price")
    /\ ~HasCol(dataframe, "revenue")

RevenueRequested(r) ==
    /\ r.kind \in {"ChartData", "ValidationException", "FileProcessingException"}
    /\ r.chart_spec.y = "revenue"
    /\ ~Truthy(r.chart_spec.x) \/ HasCol(dataframe, r.chart_spec.x)

CalculatedRevenue(r) ==
    \E k \in 1..Len(r.data_transformations) :
        /\ r.data_transformations[k].text = "Calculated {field_name} = {formula}"
        /\ r.data_transformations[k].cols[1] = "revenue"

-----------------------------------------------------------------------------
(* C14: generate on an empty dataset *)

EmptyDataset == dataframe.columns = <<>> /\ NRows(dataframe) = 0

FromGenerate(r) == r.kind \in {"ChartData", "ValidationException", "FileProcessingException"}

EmptyChartData(r) ==
    r.kind = "ChartData" /\ r.data = <<>> /\ r.summary_stats.total_records = 0

-----------------------------------------------------------------------------
(* C15: at most three group_by entries *)

MaxGroupBy == 3

\* C15: every ChartSpec that reaches the engine has at most 3 group_by
\* entries: a longer list given at construction is cut to its first three
\* entries in their given order, and the engine never lengthens group_by
\* during a run.
C15_GroupByLimit ==
    /\ [](/\ Len(chart_spec.group_by) <= MaxGroupBy
          /\ \A i \in 1..Len(results) : Len(results[i].chart_spec.group_by) <= MaxGroupBy
          /\ LET given == llm_chart_spec.group_by
             IN  /\ Len(chart_spec.group_by) = IF Len(given) > MaxGroupBy THEN MaxGroupBy
                                               ELSE Len(given)
                 /\ \A k \in 1..Len(chart_spec.group_by) : chart_spec.group_by[k] = given[k])
    /\ [][chart_spec'.group_by = chart_spec.group_by]_vars

C15_LongListCut ==
    /\ Len(llm_chart_spec.group_by) = 4
    /\ llm_chart_spec.group_by[4] = "missing"
    /\ results # <<>>
    /\ results[Len(results)].kind = "ChartData"
    /\ results[Len(results)].chart_spec.group_by = <<"date", "product", "region">>


-----------------------------------------------------------------------------
(* C16: the grouping key *)

RECURSIVE FirstOccurrences(_)
\* the entries of s in order, each kept at its first occurrence
FirstOccurrences(s) ==
    IF s = <<>> THEN <<>>
    ELSE LET before == FirstOccurrences(SubSeq(s, 1, Len(s) - 1))
         IN  IF Contains(before, s[Len(s)]) THEN before ELSE Append(before, s[Len(s)])

\* group_by in order, then x, existing columns only, no column twice
OrderedKey(df, spec) ==
    SelectSeq(FirstOccurrences(Append(spec.group_by, spec.x)),
              LAMBDA c : Truthy(c) /\ HasCol(df, c))

\* C16: the grouping key used by aggregation is the group_by entries in their
\* given order followed by x when x is not already among them, restricted to
\* columns that exist in the dataset, with order preserved and duplicates
\* removed (a column repeated in group_by appears once): the result of the
\* stage has the key columns followed by the value column; when the key is
\* empty the aggregation stage leaves the dataset unchanged.
C16_GroupingKey ==
    [][(pc = "aggregate" /\ (chart_spec.group_by # <<>> \/ chart_spec.aggregation # "none"))
         => LET key == OrderedKey(processed_df, chart_spec)
                y == chart_spec.y
            IN  /\ key = <<>> => processed_df' = processed_df
                /\ (/\ key # <<>> /\ chart_spec.aggregation # "count"
                    /\ Truthy(y) /\ HasCol(processed_df, y) /\ ~Contains(key, y))
                      => processed_df'.columns = Append(key, y)
                /\ (key # <<>> /\ chart_spec.aggregation = "count" /\ ~Contains(key, "count"))
                      => processed_df'.columns = Append(key, "count")]_vars


-----------------------------------------------------------------------------
(* C17: a filter that cannot be applied is skipped on its own *)

\* the literal cannot be used with the operator
LiteralMismatch(df, f) ==
    \/ f.operator \in {">", ">=", "<", "<="} /\ (f.value.list \/ ~IsNum(f.value.items[1]))
    \/ f.operator \in {"in", "not_in"} /\ ~f.value.list
    \/ f.operator \in {"==", "!="} /\ f.value.list /\ Len(f.value.items) # NRows(df)

\* an ordering operator on a column with a value that is not a number
ColumnMismatch(df, f) ==
    /\ f.operator \in {">", ">=", "<", "<="}
    /\ \E i \in 1..NRows(df) :
          ~IsNa(df.rows[i].v[f.column]) /\ IsNa(to_numeric(df, f.column).cells[i])

Inapplicable(df, f) ==
    \/ ~HasCol(df, f.column)
    \/ HasCol(df, f.column) /\ (LiteralMismatch(df, f) \/ ColumnMismatch(df, f))

\* C17: a filter whose column is absent from the dataset, or whose operator
\* cannot be applied to the column or literal, is skipped on its own: the rows
\* are left as they were for that filter, a trace note about the skipped
\* filter is appended, the remaining filters of the list are still applied in
\* order, and the request does not fail.
C17_SkippedFilterNoted ==
    [][(/\ pc = "filter" /\ chart_spec.filters # <<>>
        /\ Inapplicable(processed_df, chart_spec.filters[fi]))
         => /\ processed_df' = processed_df
            /\ Len(transformations') = Len(transformations) + 1
            /\ Contains(transformations'[Len(transformations')].cols, chart_spec.filters[fi].column)
            /\ results' = results
            /\ fi < Len(chart_spec.filters) => (pc' = "filter" /\ fi' = fi + 1)
            /\ fi = Len(chart_spec.filters) => pc' # "idle"]_vars


-----------------------------------------------------------------------------
(* C18: aggregation requested but not possible *)

\* no grouping column resolves to a dataset column
NoGroupingColumn(df, spec) ==
    \A c \in Range(spec.group_by) \cup {spec.x} : ~(Truthy(c) /\ HasCol(df, c))

\* y is unset or not a dataset column, for a non-count aggregation
NoValueColumn(df, spec) ==
    spec.aggregation # "count" /\ (~Truthy(spec.y) \/ ~HasCol(df, spec.y))

\* C18: when aggregation is requested but no grouping column resolves to a
\* dataset column, or y is unset or not a dataset column for a non-count
\* aggregation, the aggregation stage is a silent degradation: the dataset is
\* passed through unchanged, nothing is raised, and a trace note is appended.
C18_DegradedAggregationNoted ==
    [][(/\ pc = "aggregate"
        /\ chart_spec.aggregation # "none"
        /\ NoGroupingColumn(processed_df, chart_spec) \/ NoValueColumn(processed_df, chart_spec))
         => /\ processed_df' = processed_df
            /\ results' = results
            /\ pc' # "idle"
            /\ Len(transformations') = Len(transformations) + 1]_vars


-----------------------------------------------------------------------------
(* C19: a formula that references a column the dataset does not have *)

\* the identifiers of the formula that look like columns but are not columns
\* of df (nor names the evaluator provides)
MissingColumns(df, formula) ==
    {tok \in Range(formula) : IsIdentifier(tok) /\ tok \notin safe_dict_names(df.columns)}

\* C19: a calculation formula that references an identifier which looks like
\* a column but is not a column of the dataset makes generate fail with a
\* validation error whose message names every missing column; no calculated
\* column is stored and no later stage runs.
C19_MissingColumnsNamed ==
    [][(/\ pc = "calc" /\ HasCalculation(chart_spec)
        /\ ~dangerous(chart_spec.calculation.formula)
        /\ MissingColumns(processed_df, chart_spec.calculation.formula) # {})
         => /\ Len(results') = Len(results) + 1
            /\ LET r == results'[Len(results')]
               IN  /\ r.kind = "ValidationException"
                   /\ MissingColumns(processed_df, chart_spec.calculation.formula)
                         \subseteq Range(r.error.error_message.cols)
            /\ processed_df'.columns = processed_df.columns
            /\ pc' = "idle"]_vars


-----------------------------------------------------------------------------
(* C20: the denylist of unsafe tokens *)

dangerous_patterns == {"__import__", "import", "exec", "eval", "open", "file", "input",
                       "raw_input"}

Unsafe(formula) == \E k \in 1..Len(formula) : formula[k] \in dangerous_patterns

\* C20: a calculation formula containing any token of the fixed denylist
\* (import, exec, eval, double underscore, open, file, input, raw_input) is
\* rejected before it is evaluated: the formula is never passed to the
\* evaluator (the error is the denylist's, not one of the evaluation),
\* generate fails with a validation error, and the dataset gains no column.
C20_DenylistRejects ==
    [][(/\ pc = "calc" /\ HasCalculation(chart_spec)
        /\ Unsafe(chart_spec.calculation.formula))
         => /\ Len(results') = Len(results) + 1
            /\ LET r == results'[Len(results')]
               IN  /\ r.kind = "ValidationException"
                   /\ r.error.error_message.text =
                         "Failed to calculate {field_name}: Formula evaluation failed: Unsafe operation detected in formula"
                   /\ r.data_transformations = <<>>
            /\ processed_df' = processed_df
            /\ pc' = "idle"]_vars

C20_UnsafeFormulaRejected ==
    /\ pc = "idle" /\ results # <<>>
    /\ HasCalculation(chart_spec)
    /\ chart_spec.calculation.formula[1] \in {"__import__", "eval", "open"}
    /\ results[Len(results)].kind = "ValidationException"
    /\ ~HasCol(processed_df, chart_spec.calculation.field_name)
    /\ stages = <<"calculation">>


-----------------------------------------------------------------------------
(* C21: the names a formula can reach *)

whitelist == {"abs", "min", "max", "sum", "round", "pow", "sqrt", "log", "exp"}

\* the identifiers of the formula, in order, that are neither a referenced
\* dataset column nor a whitelisted function
OutsideNames(df, formula) ==
    SelectSeq(formula, LAMBDA tok : /\ IsIdentifier(tok)
                                    /\ tok \notin whitelist
                                    /\ tok \notin Range(actual_columns(df, formula)))

\* C21: the set of names bound in the formula evaluation environment is
\* exactly the referenced dataset columns plus the whitelist {abs, min, max,
\* sum, round, pow, sqrt, log, exp}: no other name (no library module, no
\* built-in namespace entry) is reachable from a formula, so a formula using
\* any other name fails at that name as an undefined name.
C21_OnlyColumnsAndWhitelist ==
    [][(/\ pc = "calc" /\ HasCalculation(chart_spec)
        /\ ~dangerous(chart_spec.calculation.formula))
         => LET formula == chart_spec.calculation.formula
                outside == OutsideNames(processed_df, formula)
            IN  /\ safe_dict_names(actual_columns(processed_df, formula))
                      = whitelist \cup Range(actual_columns(processed_df, formula))
                /\ outside # <<>>
                      => LET r == results'[Len(results')]
                         IN  /\ Len(results') = Len(results) + 1
                             /\ r.error.error_message.text =
                                   "Failed to calculate {field_name}: Formula evaluation failed: name '{name}' is not defined"
                             /\ r.error.error_message.cols
                                   = <<chart_spec.calculation.field_name, outside[1]>>]_vars


-----------------------------------------------------------------------------
(* C22: the column a successful calculation stores *)

\* cell c is the product of the cells a and b, or 0 when either is missing
\* or not a number
IsProductOrZero(c, a, b) ==
    IF IsNa(a) \/ IsNa(b) \/ ~IsNum(a) \/ ~IsNum(b) THEN c.n = 0
    ELSE c.n * (a.d * b.d) = a.n * b.n * c.d

-----------------------------------------------------------------------------
(* C23: the frame of the time-period stage *)

period_keywords == {"month", "year", "quarter", "week"}

\* out is df with the one new column c added
AddsOnly(df, out, c) ==
    /\ out.columns = Append(df.columns, c)
    /\ NRows(out) = NRows(df)
    /\ \A i \in 1..NRows(df) : \A k \in Range(df.columns) : out.rows[i].v[k] = df.rows[i].v[k]

\* C23: the time-period stage changes the dataset only when x names a period
\* keyword (month, year, quarter, week) that is not already a column of the
\* dataset, and then only by adding the column of that keyword's name with
\* one trace entry naming the source column; in every other case the
\* dataset's existing columns and the trace are left unchanged and nothing is
\* raised.
C23_TimeStageFrame ==
    [][pc = "time"
         => /\ pc' # "idle" /\ results' = results
            /\ \/ processed_df' = processed_df /\ transformations' = transformations
               \/ /\ chart_spec.x \in period_keywords
                  /\ ~HasCol(processed_df, chart_spec.x)
                  /\ AddsOnly(processed_df, processed_df', chart_spec.x)
                  /\ Len(transformations') = Len(transformations) + 1
                  /\ \E c \in Range(processed_df.columns) :
                        transformations'[Len(transformations')].cols = <<c>>]_vars


-----------------------------------------------------------------------------
(* C24: the coercion of emitted values *)

\* the JSON kind the mapping gives a value whose cell was of kind value.of
Coerced(value) ==
    IF value.of = "null" THEN value.j = "null"
    ELSE IF value.of = "int" THEN value.j = "int"
    ELSE IF value.of = "float"
    THEN IF value.n % value.d = 0 THEN value.j = "int" ELSE value.j = "float"
    ELSE value.j = "str"

\* C24: every emitted field value is coerced by this mapping: null or missing
\* gives null; an integer-valued numeric gives an integer; a fractional
\* numeric gives a float; a timestamp gives an ISO-8601 string; anything else
\* gives its string representation. In particular a numeric cell never comes
\* out as a string and an integer-valued number never comes out as a float.
C24_ValueCoercion ==
    \A i \in 1..Len(results) : \A k \in 1..Len(results[i].data) :
        \A field \in DOMAIN results[i].data[k] : Coerced(results[i].data[k][field])


-----------------------------------------------------------------------------
(* C25: the order of the records *)

\* a < b for two emitted values made from cells of one column
JLess(a, b) ==
    IF a.of \in {"int", "float"} /\ b.of \in {"int", "float"} THEN a.n * b.d < b.n * a.d
    ELSE IF a.of = "str" /\ b.of = "str" THEN StrRank(a.s) < StrRank(b.s)
    ELSE IF a.of = "ts" /\ b.of = "ts" THEN a.n < b.n
    ELSE FALSE

\* the records are in non-decreasing order of field, the missing values last
Ascending(data, field) ==
    \A k \in 1..(Len(data) - 1) :
        IF data[k][field].nan THEN data[k + 1][field].nan
        ELSE data[k + 1][field].nan \/ ~JLess(data[k + 1][field], data[k][field])

\* the records of a pie cut to its largest values: non-increasing values,
\* the record named Others last
ByValueOthersLast(data) ==
    /\ \A k \in 1..Len(data) : data[k]["name"].s = "Others" => k = Len(data)
    /\ \A k \in 1..(Len(data) - 1) :
          (/\ data[k + 1]["name"].s # "Others"
           /\ data[k]["value"].j = "float" /\ data[k + 1]["value"].j = "float")
              => ~JLess(data[k]["value"], data[k + 1]["value"])

XField(spec) == IF spec.chart_type = "pie" THEN "name" ELSE spec.x

Emitted(spec, df) ==
    /\ sortable(df, spec) /\ ~format_raises(spec, df)
    /\ spec.chart_type = "pie" => Truthy(spec.y)

-----------------------------------------------------------------------------
(* C26: the trace is append-only, one entry per applied step *)

IsPrefix(s, t) == Len(s) <= Len(t) /\ SubSeq(t, 1, Len(s)) = s

Added == Len(transformations') - Len(transformations)

\* C26: the transformation trace is append-only during a run: entries are
\* never removed, reordered or deduplicated, they appear in the order the
\* stages ran, and each applied pipeline step (calculation, time extraction,
\* each applied filter, aggregation, cap, sort) contributes exactly one entry.
C26_OneEntryPerStep ==
    [][pc # "idle"
         => /\ IsPrefix(transformations, transformations')
            /\ Added \in {0, 1}
            /\ (pc = "calc" /\ HasCalculation(chart_spec) /\ pc' # "idle") => Added = 1
            /\ (pc = "time" /\ processed_df' # processed_df) => Added = 1
            /\ (pc = "filter" /\ processed_df' # processed_df) => Added = 1
            /\ (pc = "aggregate" /\ NRows(processed_df') # NRows(processed_df)) => Added = 1
            /\ (pc = "cap" /\ NRows(processed_df) > max_data_points) => Added = 1
            /\ (pc = "sort" /\ sortable(processed_df, chart_spec)) => Added = 1]_vars


-----------------------------------------------------------------------------
(* C27: the trace entry of an applied filter *)

\* C27: for each filter that is applied, exactly one trace entry is appended,
\* and it records the filter's column, its operator, its literal value, and
\* the row counts before and after that filter.
C27_FilterEntryWithCounts ==
    [][(/\ pc = "filter" /\ chart_spec.filters # <<>>
        /\ FilterIteration(processed_df, chart_spec.filters[fi]).applied)
         => LET f == chart_spec.filters[fi]
                entry == transformations'[Len(transformations')]
            IN  /\ Len(transformations') = Len(transformations) + 1
                /\ entry.cols = <<f.column>> /\ entry.op = f.operator /\ entry.value = f.value
                /\ {"before", "after"} \subseteq DOMAIN entry
                /\ entry.before = NRows(processed_df)
                /\ entry.after = NRows(processed_df')]_vars


-----------------------------------------------------------------------------
(* C28: the caller's dataset *)

\* C28: generate never modifies the dataset passed in by the caller: after any
\* run, successful or failed, the caller's dataset has the same columns, rows
\* and values as before the call, because every mutating stage works on the
\* invocation's own copy.
C28_CallerDatasetUntouched == [][dataframe' = dataframe /\ ~aliased']_vars

\* a finished run whose calculation wrote a column that the caller's dataset
\* does not have
C28_WrittenToCopyOnly ==
    /\ pc = "idle" /\ results # <<>>
    /\ results[Len(results)].kind = "ChartData"
    /\ HasCalculation(chart_spec)
    /\ HasCol(processed_df, chart_spec.calculation.field_name)
    /\ ~HasCol(dataframe, chart_spec.calculation.field_name)


-----------------------------------------------------------------------------
(* C29 *)

\* the call that ends in this step ends in a failure of generate_chart_data
GenerateFails ==
    /\ Len(results') = Len(results) + 1
    /\ FromGenerate(results'[Len(results')])
    /\ results'[Len(results')].kind # "ChartData"

\* C29: a failure that leaves generate_chart_data is a ValidationException or
\* a FileProcessingException and nothing else: it is a ValidationException
\* exactly when a ValidationException left the try body, which is the case of
\* a failed calculation and of a failed structural validation, and it is a
\* FileProcessingException for every other exception of every other stage.
C29_TwoFailureKinds ==
    [][GenerateFails =>
          LET r == results'[Len(results')]
          IN  /\ exception' # None
              /\ r.kind \in {"ValidationException", "FileProcessingException"}
              /\ (r.kind = "ValidationException") = (exception' = "ValidationException")
              /\ (r.kind = "ValidationException") = (pc \in {"calc", "validate"})
              /\ (r.kind = "FileProcessingException") = (pc \notin {"calc", "validate"})]_vars

\* a ValueError of the formatting stage has left the call as a
\* FileProcessingException
C29_ValueErrorWrapped ==
    /\ pc = "idle" /\ results # <<>>
    /\ results[Len(results)].kind = "FileProcessingException"
    /\ exception = "ValueError"
    /\ stages[Len(stages)] = "formatting"

\* a ValidationException of the calculation stage has left the call unwrapped
C29_CalculationFailurePropagated ==
    /\ pc = "idle" /\ results # <<>>
    /\ results[Len(results)].kind = "ValidationException"
    /\ exception = "ValidationException"
    /\ stages[Len(stages)] = "calculation"


-----------------------------------------------------------------------------
(* C30 *)

\* a spec without a calculation whose x asks for no period
PlainSpec(spec) ==
    /\ ~HasCalculation(spec)
    /\ ~Truthy(spec.x) \/ PeriodOf(spec.x) = "none"

\* C30: for a spec without a calculation and without a period keyword in x,
\* the dry run validate_chart_spec on the dataset's column metadata reports
\* is_valid exactly when the structural validation inside
\* generate_chart_data accepts the same spec on that dataset.
C30_ValidateAgreesWithGenerate ==
    [][(pc = "validate" /\ pc' # "validate" /\ PlainSpec(chart_spec))
          => validate_chart_spec(chart_spec, csv_metadata).is_valid
                 = validation_result'.is_valid]_vars

====
